---- MODULE Spec2Model ----
(***************************************************************************)
(* A model of the one-dimensional flow domain StFlow (StFlow.cpp): the     *)
(* grid and its buffers, the residual orchestrator eval with its window    *)
(* arithmetic, the transport cache and diffusive-flux builder, the         *)
(* equation assemblers, and the configuration operations.  The domains     *)
(* share one ThermoPhase, whose state every evaluation sets and reads.      *)
(*                                                                         *)
(* Real numbers are exact rationals <<num, den>> with den > 0 in lowest    *)
(* terms; <<0, 0>> is a NaN (the result of a division by zero).            *)
(* Array indices are size_t values reduced modulo SizeMod.                 *)
(***************************************************************************)
EXTENDS Integers, Sequences, FiniteSets, TLC

\* flow, out: the domains and their residual buffers; last: the last call;
\* gas: the state of the ThermoPhase the domains refer to; pc: the position
\* of each domain's thread inside a running eval
VARIABLES flow, out, last, gas, pc

vars == <<flow, out, last, gas, pc>>

(* ------------------------------ bounds -------------------------------- *)

\* largest number of grid points of a domain
MaxPoints == 3

\* number of species of the phase
NSP == 2

(* ------------------------------ sequencing --------------------------- *)

\* F applied to the value of e: the statement that computes e has completed
\* before the statements of F run
Bind(e, F(_)) == CHOOSE r \in {F(v) : v \in {e}} : TRUE

(* ------------------------- exact real arithmetic ---------------------- *)

Abs(a) == IF a < 0 THEN -a ELSE a

RECURSIVE Gcd(_, _)
Gcd(a, b) == IF b = 0 THEN a ELSE Gcd(b, a % b)

NaN == <<0, 0>>

IsNaN(a) == a[2] = 0

\* the rational n/d in lowest terms with a positive denominator
Norm(n, d) ==
    IF d = 0 THEN NaN
    ELSE LET g == Gcd(Abs(n), Abs(d))
             s == IF d < 0 THEN -1 ELSE 1
         IN  <<(s * n) \div g, (s * d) \div g>>

R(n) == <<n, 1>>

RAdd(a, b) == IF IsNaN(a) \/ IsNaN(b) THEN NaN
              ELSE Norm(a[1] * b[2] + b[1] * a[2], a[2] * b[2])

RSub(a, b) == IF IsNaN(a) \/ IsNaN(b) THEN NaN
              ELSE Norm(a[1] * b[2] - b[1] * a[2], a[2] * b[2])

RMul(a, b) == IF IsNaN(a) \/ IsNaN(b) THEN NaN
              ELSE Norm(a[1] * b[1], a[2] * b[2])

RDiv(a, b) == IF IsNaN(a) \/ IsNaN(b) THEN NaN
              ELSE Norm(a[1] * b[2], a[2] * b[1])

RNeg(a) == IF IsNaN(a) THEN NaN ELSE <<-a[1], a[2]>>

\* comparisons: every comparison with a NaN is false
RLt(a, b) == ~IsNaN(a) /\ ~IsNaN(b) /\ a[1] * b[2] < b[1] * a[2]

RLe(a, b) == ~IsNaN(a) /\ ~IsNaN(b) /\ a[1] * b[2] <= b[1] * a[2]

RGt(a, b) == RLt(b, a)

\* the sum of f[k] over k in lo..hi, accumulated in index order
RECURSIVE RSum(_, _, _)
RSum(f, lo, hi) == IF hi < lo THEN R(0) ELSE RAdd(RSum(f, lo, hi - 1), f[hi])

(* --------------------------- size_t arithmetic ------------------------ *)

\* size_t is an unsigned type: arithmetic wraps modulo SizeMod
SizeMod == 65536

npos == SizeMod - 1

SzAdd(a, b) == (a + b) % SizeMod

SzSub(a, b) == (a - b + SizeMod) % SizeMod

SzMax(a, b) == IF a < b THEN b ELSE a

SzMin(a, b) == IF b < a THEN b ELSE a

(* ------------------------------ layout -------------------------------- *)

c_offset_U == 0

c_offset_V == 1

c_offset_T == 2

c_offset_L == 3

c_offset_E == 4

c_offset_Y == 5

\* Cantera's Undef = -999.1234
Undef == Norm(-9991234, 10000)

Dom == {1, 2}

Species == 0 .. (NSP - 1)

\* index of component n at point j in a buffer of the domain s
index(s, n, j) == s.m_nv * j + n

(* -------------------------- std::vector::resize ----------------------- *)

\* vector<T>::resize(n, fill): the first min(old, n) elements are kept
VecResize(v, n, fill) == [j \in 0 .. (n - 1) |-> IF j \in DOMAIN v THEN v[j] ELSE fill]

\* Array2D::resize(nsp, m, fill) with an unchanged row count nsp: the linear
\* storage is resized, so the leading columns are kept
Arr2Resize(a, m, fill) ==
    [kj \in Species \X (0 .. (m - 1)) |-> IF kj \in DOMAIN a THEN a[kj] ELSE fill]

Arr3Resize(a, m, fill) ==
    [kmj \in Species \X Species \X (0 .. (m - 1)) |->
        IF kmj \in DOMAIN a THEN a[kmj] ELSE fill]

\* number of columns of a per-species array
Cols(a) == Cardinality({kj[2] : kj \in DOMAIN a})

VLen(v) == Cardinality(DOMAIN v)

Empty == [j \in {} |-> R(0)]

(* --------------------------- the domain object ------------------------ *)

\* molecular weight of species k (m_wt, copied from the phase)
Wt(k) == R(k + 1)

\* Domain1D::resize(nv, np): the component and point counts and the grid
\* vector are resized
Domain1D_resize(s, nv, np) ==
    [s EXCEPT !.m_nv = nv, !.m_points = np, !.m_z = VecResize(s.m_z, np, R(0))]

\* resize with the energy flags of every point cleared
resize_cleared(s, ncomponents, points) ==
    LET b  == Domain1D_resize(s, ncomponents, points)
        np == b.m_points
    IN  [b EXCEPT
            !.m_rho = VecResize(b.m_rho, np, R(0)),
            !.m_wtm = VecResize(b.m_wtm, np, R(0)),
            !.m_cp = VecResize(b.m_cp, np, R(0)),
            !.m_visc = VecResize(b.m_visc, np, R(0)),
            !.m_tcon = VecResize(b.m_tcon, np, R(0)),
            !.m_diff = Arr2Resize(b.m_diff, np, R(0)),
            !.m_multidiff = IF b.m_do_multicomponent
                            THEN Arr3Resize(b.m_multidiff, np, R(0))
                            ELSE b.m_multidiff,
            !.m_dthermal = IF b.m_do_multicomponent
                           THEN Arr2Resize(b.m_dthermal, np, R(0))
                           ELSE b.m_dthermal,
            !.m_flux = Arr2Resize(b.m_flux, np, R(0)),
            !.m_wdot = Arr2Resize(b.m_wdot, np, R(0)),
            !.m_hk = Arr2Resize(b.m_hk, np, R(0)),
            !.m_dhk_dz = Arr2Resize(b.m_dhk_dz, np - 1, R(0)),
            !.m_do_energy = [j \in 0 .. (np - 1) |-> FALSE],
            !.m_qdotRadiation = VecResize(b.m_qdotRadiation, np, R(0)),
            !.m_fixedtemp = VecResize(b.m_fixedtemp, np, R(0)),
            !.m_dz = VecResize(b.m_dz, np - 1, R(0)),
            !.m_z = VecResize(b.m_z, np, R(0))]

\* StFlow::resize(ncomponents, points)
resize(s, ncomponents, points) ==
    LET b  == Domain1D_resize(s, ncomponents, points)
        np == b.m_points
    IN  [b EXCEPT
            !.m_rho = VecResize(b.m_rho, np, R(0)),
            !.m_wtm = VecResize(b.m_wtm, np, R(0)),
            !.m_cp = VecResize(b.m_cp, np, R(0)),
            !.m_visc = VecResize(b.m_visc, np, R(0)),
            !.m_tcon = VecResize(b.m_tcon, np, R(0)),
            !.m_diff = Arr2Resize(b.m_diff, np, R(0)),
            !.m_multidiff = IF b.m_do_multicomponent
                            THEN Arr3Resize(b.m_multidiff, np, R(0))
                            ELSE b.m_multidiff,
            !.m_dthermal = IF b.m_do_multicomponent
                           THEN Arr2Resize(b.m_dthermal, np, R(0))
                           ELSE b.m_dthermal,
            !.m_flux = Arr2Resize(b.m_flux, np, R(0)),
            !.m_wdot = Arr2Resize(b.m_wdot, np, R(0)),
            !.m_hk = Arr2Resize(b.m_hk, np, R(0)),
            !.m_dhk_dz = Arr2Resize(b.m_dhk_dz, np - 1, R(0)),
            !.m_do_energy = VecResize(b.m_do_energy, np, FALSE),
            !.m_qdotRadiation = VecResize(b.m_qdotRadiation, np, R(0)),
            !.m_fixedtemp = VecResize(b.m_fixedtemp, np, R(0)),
            !.m_dz = VecResize(b.m_dz, np - 1, R(0)),
            !.m_z = VecResize(b.m_z, np, R(0))]

\* the first index j in 1..n-1 with z[j] <= z[j-1], or n when there is none:
\* the point at which the loop of setupGrid throws
FirstBad(z, n) ==
    LET bad == {j \in 1 .. (n - 1) : ~RGt(z[j], z[j - 1])}
    IN  IF bad = {} THEN n ELSE CHOOSE j \in bad : \A i \in bad : j <= i

\* setupGrid with the interval width taken one point too far to the left
\* (m_dz[j-1] = m_z[j-1] - m_z[j-2])
setupGrid_shiftedWidth(s, n, z) ==
    LET r  == resize(s, s.m_nv, n)
        jb == FirstBad(z, r.m_points)
        mz == [j \in 0 .. (r.m_points - 1) |-> IF j < jb THEN z[j] ELSE r.m_z[j]]
        dz == [j \in 0 .. (r.m_points - 2) |->
                 IF j + 1 < jb
                 THEN (IF j = 0 THEN mz[0] ELSE RSub(mz[j], mz[j - 1]))
                 ELSE r.m_dz[j]]
    IN  [s   |-> [r EXCEPT !.m_z = mz, !.m_dz = dz],
         err |-> IF jb < r.m_points THEN "CanteraError" ELSE "none"]

\* StFlow::setupGrid(n, z): the buffers are resized first, then the grid is
\* copied point by point until a coordinate that does not increase is met.
\* The result is the domain as the call leaves it and the error it raised.
setupGrid(s, n, z) ==
    LET r  == resize(s, s.m_nv, n)
        jb == FirstBad(z, r.m_points)
        mz == [j \in 0 .. (r.m_points - 1) |-> IF j < jb THEN z[j] ELSE r.m_z[j]]
        dz == [j \in 0 .. (r.m_points - 2) |->
                 IF j + 1 < jb THEN RSub(mz[j + 1], mz[j]) ELSE r.m_dz[j]]
    IN  [s   |-> [r EXCEPT !.m_z = mz, !.m_dz = dz],
         err |-> IF jb < r.m_points THEN "CanteraError" ELSE "none"]

FlowModes == {"free-flow", "axisymmetric-flow", "unstrained-flow"}

\* StFlow::StFlow(ph, nsp, points) followed by the choice of the flow mode
\* and the placement of the domain at global point jstart
StFlow(points, mode, jstart) ==
    LET s0 == [m_nv |-> c_offset_Y + NSP,
               m_points |-> points,
               m_jstart |-> jstart,
               m_z |-> Empty, m_dz |-> Empty,
               m_rho |-> Empty, m_wtm |-> Empty, m_cp |-> Empty,
               m_visc |-> Empty, m_tcon |-> Empty,
               m_diff |-> Arr2Resize(Empty, points, R(0)),
               m_multidiff |-> Arr3Resize(Empty, points, R(0)),
               m_dthermal |-> Empty,
               m_flux |-> Arr2Resize(Empty, points, R(0)),
               m_wdot |-> Arr2Resize(Empty, points, R(0)),
               m_hk |-> Arr2Resize(Empty, points, R(0)),
               m_dhk_dz |-> Arr2Resize(Empty, points - 1, R(0)),
               m_do_energy |-> [j \in 0 .. (points - 1) |-> FALSE],
               m_qdotRadiation |-> VecResize(Empty, points, R(0)),
               m_fixedtemp |-> Empty,
               m_do_species |-> [k \in Species |-> TRUE],
               m_do_soret |-> FALSE,
               m_do_multicomponent |-> FALSE,
               m_do_radiation |-> FALSE,
               m_epsilon_left |-> R(0),
               m_epsilon_right |-> R(0),
               m_force_full_update |-> FALSE,
               m_dovisc |-> (mode = "axisymmetric-flow"),
               m_isFree |-> (mode = "free-flow"),
               m_usesLambda |-> (mode = "axisymmetric-flow"),
               m_zfixed |-> Undef,
               m_tfixed |-> R(-1),
               m_zfix |-> << >>,
               m_tfix |-> << >>,
               m_kExcessLeft |-> 0,
               m_kExcessRight |-> 0,
               m_press |-> R(1),
               m_trans |-> "mixture-averaged",
               m_refiner |-> [c \in {c_offset_U, c_offset_V, c_offset_T, c_offset_L}
                                 |-> FALSE],
               m_criteria |-> "default",
               m_jacStale |-> FALSE,
               beyond_dthermal |-> R(0)]
        gr == [ng \in 0 .. (points - 1) |-> Norm(ng, points)]
    IN  setupGrid(s0, points, gr).s

(* ----------------------- state buffer accessors ----------------------- *)

u(s, x, j) == x[index(s, c_offset_U, j)]

V(s, x, j) == x[index(s, c_offset_V, j)]

T(s, x, j) == x[index(s, c_offset_T, j)]

lambda(s, x, j) == x[index(s, c_offset_L, j)]

Y(s, x, k, j) == x[index(s, c_offset_Y + k, j)]

\* mole fraction from the cached mean molecular weight
X(s, x, k, j) == RDiv(RMul(s.m_wtm[j], Y(s, x, k, j)), Wt(k))

density(s, j) == s.m_rho[j]

rho_u(s, x, j) == RMul(s.m_rho[j], u(s, x, j))

T_fixed(s, j) == s.m_fixedtemp[j]

\* the solution of the previous time step (m_slast, zero after resize)
prevSoln(s, n, j) == R(0)

firstPoint(s) == s.m_jstart

lastPoint(s) == s.m_jstart + s.m_points - 1

grid(s, j) == s.m_z[j]

(* ------------------- chemical state and transport models -------------- *)
(* The phase, kinetics and transport objects are collaborators outside the *)
(* domain.  Each is a function of the state last set on the phase: the     *)
(* temperature Tg, the (unnormalised) mass fractions Yg and the pressure.  *)

\* StFlow::setGas(x, j)
setGas(s, x, j) ==
    [Tg |-> T(s, x, j), Yg |-> [k \in Species |-> Y(s, x, k, j)], P |-> s.m_press]

\* StFlow::setGasAtMidpoint(x, j)
setGasAtMidpoint(s, x, j) ==
    [Tg |-> RMul(<<1, 2>>, RAdd(T(s, x, j), T(s, x, j + 1))),
     Yg |-> [k \in Species |-> RMul(<<1, 2>>, RAdd(Y(s, x, k, j), Y(s, x, k, j + 1)))],
     P  |-> s.m_press]

\* ThermoPhase::meanMolecularWeight: 1 / sum_k Y_k / W_k
meanMolecularWeight(g) ==
    RDiv(R(1), RSum([k \in Species |-> RDiv(g.Yg[k], Wt(k))], 0, NSP - 1))

\* ThermoPhase::density of an ideal gas, in units with gas constant 1
thermoDensity(g) == RDiv(RMul(g.P, meanMolecularWeight(g)), g.Tg)

\* ThermoPhase::cp_mass
cp_mass(g) == RSum([k \in Species |-> RMul(R(k + 1), g.Yg[k])], 0, NSP - 1)

\* ThermoPhase::getPartialMolarEnthalpies
partialMolarEnthalpy(g, k) == RMul(R(k + 1), g.Tg)

\* Kinetics::getNetProductionRates: species 0 is converted to species 1,
\* conserving mass (W_0 wdot_0 + W_1 wdot_1 = 0)
netProductionRate(g, k) ==
    IF k = 0 THEN RMul(R(-2), g.Yg[0])
    ELSE IF k = 1 THEN g.Yg[0]
    ELSE R(0)

\* Transport::viscosity
viscosity(g) == g.Tg

\* Transport::thermalConductivity
thermalConductivity(g) == RMul(R(2), g.Tg)

\* Transport::getMixDiffCoeffs
mixDiffCoeff(g, k) == RMul(R(k + 1), g.Tg)

\* Transport::getMultiDiffCoeffs
multiDiffCoeff(g, k, m) == IF k = m THEN R(0) ELSE RMul(R(k + m + 1), g.Tg)

\* Transport::getThermalDiffCoeffs
thermalDiffCoeff(g, k) == IF k = 0 THEN g.Tg ELSE RNeg(g.Tg)

(* ------------------ transport cache and diffusive fluxes -------------- *)

\* StFlow::updateThermo(x, j0, j1): points j0 .. j1
updateThermo(s, x, j0, j1) ==
    LET in(j) == j0 <= j /\ j <= j1
    IN  [s EXCEPT
            !.m_rho = [j \in DOMAIN s.m_rho |->
                IF in(j) THEN thermoDensity(setGas(s, x, j)) ELSE s.m_rho[j]],
            !.m_wtm = [j \in DOMAIN s.m_wtm |->
                IF in(j) THEN meanMolecularWeight(setGas(s, x, j)) ELSE s.m_wtm[j]],
            !.m_cp = [j \in DOMAIN s.m_cp |->
                IF in(j) THEN cp_mass(setGas(s, x, j)) ELSE s.m_cp[j]],
            !.m_hk = [kj \in DOMAIN s.m_hk |->
                IF in(kj[2]) THEN partialMolarEnthalpy(setGas(s, x, kj[2]), kj[1])
                ELSE s.m_hk[kj]],
            !.m_wdot = [kj \in DOMAIN s.m_wdot |->
                IF in(kj[2]) THEN netProductionRate(setGas(s, x, kj[2]), kj[1])
                ELSE s.m_wdot[kj]]]

\* the loop of StFlow::updateTransport over the intervals j0 .. j1-1, G[j]
\* being the state the ThermoPhase is in when the loop body of interval j
\* reads the collaborators
updateTransport_read(s, G, j0, j1) ==
    LET in(j) == j0 <= j /\ j < j1
        wtm(j) == meanMolecularWeight(G[j])
        rho(j) == thermoDensity(G[j])
    IN  [s EXCEPT
            !.m_visc = [j \in DOMAIN s.m_visc |->
                IF in(j) THEN (IF s.m_dovisc THEN viscosity(G[j]) ELSE R(0))
                ELSE s.m_visc[j]],
            !.m_multidiff = [kmj \in DOMAIN s.m_multidiff |->
                IF s.m_do_multicomponent /\ in(kmj[3])
                THEN multiDiffCoeff(G[kmj[3]], kmj[1], kmj[2])
                ELSE s.m_multidiff[kmj]],
            !.m_diff = [kj \in DOMAIN s.m_diff |->
                IF ~in(kj[2]) THEN s.m_diff[kj]
                ELSE IF s.m_do_multicomponent
                THEN RDiv(RMul(Wt(kj[1]), rho(kj[2])), RMul(wtm(kj[2]), wtm(kj[2])))
                ELSE RDiv(RMul(mixDiffCoeff(G[kj[2]], kj[1]),
                               RMul(Wt(kj[1]), rho(kj[2]))), wtm(kj[2]))],
            !.m_tcon = [j \in DOMAIN s.m_tcon |->
                IF in(j) THEN thermalConductivity(G[j]) ELSE s.m_tcon[j]],
            !.m_dthermal = [kj \in DOMAIN s.m_dthermal |->
                IF s.m_do_multicomponent /\ s.m_do_soret /\ in(kj[2])
                THEN thermalDiffCoeff(G[kj[2]], kj[1])
                ELSE s.m_dthermal[kj]]]

\* StFlow::updateTransport(x, j0, j1) running undisturbed: every loop body
\* reads the state its own setGasAtMidpoint has set
updateTransport(s, x, j0, j1) ==
    updateTransport_read(s, [j \in {i \in 0 .. (s.m_points - 1) : j0 <= i /\ i < j1}
                                |-> setGasAtMidpoint(s, x, j)], j0, j1)

\* the multicomponent flux of species k in interval j
multiFlux(s, x, k, j) ==
    LET dz == RSub(grid(s, j + 1), grid(s, j))
        sum == RSum([m \in Species |->
                   RMul(RMul(Wt(m), s.m_multidiff[<<k, m, j>>]),
                        RSub(X(s, x, m, j + 1), X(s, x, m, j)))], 0, NSP - 1)
    IN  RDiv(RMul(sum, s.m_diff[<<k, j>>]), dz)

\* the mixture-averaged flux of species k in interval j before the correction
mixFlux(s, x, k, j) ==
    LET dz == RSub(grid(s, j + 1), grid(s, j))
    IN  RMul(s.m_diff[<<k, j>>], RDiv(RSub(X(s, x, k, j), X(s, x, k, j + 1)), dz))

\* the mixture-averaged flux of species k in interval j with the correction
\* flux sum * Y(k, j), sum being minus the sum of the uncorrected fluxes
correctedMixFlux(s, x, k, j) ==
    LET sum == RSub(R(0), RSum([m \in Species |-> mixFlux(s, x, m, j)], 0, NSP - 1))
    IN  RAdd(mixFlux(s, x, k, j), RMul(sum, Y(s, x, k, j)))

\* the Soret term subtracted from the flux of species k in interval m.
\* m_dthermal is sized only while the transport model is multicomponent; a
\* read of m_dthermal(k, m) beyond its end is undefined behaviour and returns
\* whatever lies there, the value beyond_dthermal the caller chose
soretFlux(s, x, k, m) ==
    LET gradlogT == RDiv(RMul(R(2), RSub(T(s, x, m + 1), T(s, x, m))),
                         RMul(RAdd(T(s, x, m + 1), T(s, x, m)),
                              RSub(grid(s, m + 1), grid(s, m))))
        dt == IF <<k, m>> \in DOMAIN s.m_dthermal THEN s.m_dthermal[<<k, m>>]
              ELSE s.beyond_dthermal
    IN  RMul(dt, gradlogT)

\* StFlow::updateDiffFluxes(x, j0, j1): intervals j0 .. j1-1
updateDiffFluxes(s, x, j0, j1) ==
    LET in(j) == j0 <= j /\ j < j1
        base(k, j) == IF s.m_do_multicomponent THEN multiFlux(s, x, k, j)
                      ELSE correctedMixFlux(s, x, k, j)
    IN  [s EXCEPT !.m_flux = [kj \in DOMAIN s.m_flux |->
            IF ~in(kj[2]) THEN s.m_flux[kj]
            ELSE IF s.m_do_soret
            THEN RSub(base(kj[1], kj[2]), soretFlux(s, x, kj[1], kj[2]))
            ELSE base(kj[1], kj[2])]]

\* std::max_element over the mass fractions at point j: the first species
\* that no other species exceeds
maxElement(s, x, j) ==
    CHOOSE k \in Species :
        /\ \A m \in Species : ~RLt(Y(s, x, k, j), Y(s, x, m, j))
        /\ \A m \in Species : m < k => RLt(Y(s, x, m, j), Y(s, x, k, j))

\* StFlow::updateProperties(jg, x, jmin, jmax)
\* the band of points j0 .. j1 whose properties are computed
propertyBand(s, jmin, jmax) ==
    [j0 |-> SzSub(SzMax(jmin, 1), 1),
     j1 |-> SzMin(SzAdd(jmax, 1), SzSub(s.m_points, 1))]

\* the part of updateProperties after updateTransport: the excess species
\* and the diffusive fluxes
updateProperties_finish(s2, jg, x, jmin, jmax) ==
    Bind(IF jg = npos
         THEN [s2 EXCEPT !.m_kExcessLeft = maxElement(s2, x, jmin),
                         !.m_kExcessRight = maxElement(s2, x, jmax)]
         ELSE s2, LAMBDA s3 :
    updateDiffFluxes(s3, x, propertyBand(s2, jmin, jmax).j0,
                     propertyBand(s2, jmin, jmax).j1))

updateProperties(s, jg, x, jmin, jmax) ==
    LET j0 == propertyBand(s, jmin, jmax).j0
        j1 == propertyBand(s, jmin, jmax).j1
    IN  Bind(updateThermo(s, x, j0, j1), LAMBDA s1 :
        Bind(IF jg = npos \/ s1.m_force_full_update
             THEN updateTransport(s1, x, j0, j1) ELSE s1, LAMBDA s2 :
        updateProperties_finish(s2, jg, x, jmin, jmax)))

\* the state of the ThermoPhase as updateProperties leaves it: that of the
\* last setGas of updateThermo or setGasAtMidpoint of updateTransport
gasAfterProperties(s, jg, x, jmin, jmax, g) ==
    LET j0 == propertyBand(s, jmin, jmax).j0
        j1 == propertyBand(s, jmin, jmax).j1
    IN  IF (jg = npos \/ s.m_force_full_update) /\ j0 < j1
        THEN setGasAtMidpoint(s, x, j1 - 1)
        ELSE IF j0 <= j1 THEN setGas(s, x, j1) ELSE g

(* ------------------------------ radiation ---------------------------- *)

\* indices of the radiating species: CO2 is species 0 and H2O is species 1
m_kRadiating(i) == i

\* polynomial coefficients of the Planck mean absorption coefficients,
\* rounded to integers
c_H2O == <<0, -1, 9, -3, 1, 0>>

c_CO2 == <<19, -121, 274, -194, 56, -6>>

RECURSIVE RPow(_, _)
RPow(a, n) == IF n = 0 THEN R(1) ELSE RMul(a, RPow(a, n - 1))

\* sum_n c[n] (1000 / T)^n for n = 0..5, temperatures being in units of 1000 K
planckPoly(c, Tj) ==
    RSum([n \in 0 .. 5 |-> RMul(R(c[n + 1]), RPow(RDiv(R(1), Tj), n))], 0, 5)

\* the radiative heat loss at point j, in units with StefanBoltz = OneAtm = 1
radiativeHeatLoss(s, x, j) ==
    LET boundary_Rad_left == RMul(s.m_epsilon_left, RPow(T(s, x, 0), 4))
        boundary_Rad_right == RMul(s.m_epsilon_right, RPow(T(s, x, s.m_points - 1), 4))
        k_P_H2O == RMul(RMul(s.m_press, X(s, x, m_kRadiating(1), j)),
                        planckPoly(c_H2O, T(s, x, j)))
        k_P_CO2 == RMul(RMul(s.m_press, X(s, x, m_kRadiating(0), j)),
                        planckPoly(c_CO2, T(s, x, j)))
        k_P == RAdd(k_P_H2O, k_P_CO2)
    IN  RMul(RMul(R(2), k_P),
             RSub(RSub(RMul(R(2), RPow(T(s, x, j), 4)), boundary_Rad_left),
                  boundary_Rad_right))

\* StFlow::computeRadiation(x, jmin, jmax): points jmin .. jmax-1
computeRadiation(s, x, jmin, jmax) ==
    [s EXCEPT !.m_qdotRadiation = [j \in DOMAIN s.m_qdotRadiation |->
        IF jmin <= j /\ j < jmax THEN radiativeHeatLoss(s, x, j)
        ELSE s.m_qdotRadiation[j]]]

(* -------------------------- equation assemblers ----------------------- *)

\* the parts of a window jmin .. jmax an assembler distinguishes
isLeft(s, j, jmin) == jmin = 0 /\ j = jmin

isRight(s, j, jmax) == jmax = SzSub(s.m_points, 1) /\ j = jmax

isInterior(s, j, jmin, jmax) ==
    SzMax(jmin, 1) <= j /\ j <= SzMin(jmax, SzSub(s.m_points, 2))

inWindow(j, jmin, jmax) == jmin <= j /\ j <= jmax

\* the buffer buf with entry (n, j) replaced by val(j) at every point j that
\* satisfies wr
Assign(s, buf, n, wr(_), val(_)) ==
    [i \in DOMAIN buf |->
        IF (i % s.m_nv) = n /\ wr(i \div s.m_nv) THEN val(i \div s.m_nv) ELSE buf[i]]

\* upwinded derivatives and the second-difference terms
dVdz(s, x, j) ==
    LET jloc == IF RGt(u(s, x, j), R(0)) THEN j ELSE j + 1
    IN  RDiv(RSub(V(s, x, jloc), V(s, x, jloc - 1)), s.m_dz[jloc - 1])

dTdz(s, x, j) ==
    LET jloc == IF RGt(u(s, x, j), R(0)) THEN j ELSE j + 1
    IN  RDiv(RSub(T(s, x, jloc), T(s, x, jloc - 1)), s.m_dz[jloc - 1])

dYdz(s, x, k, j) ==
    LET jloc == IF RGt(u(s, x, j), R(0)) THEN j ELSE j + 1
    IN  RDiv(RSub(Y(s, x, k, jloc), Y(s, x, k, jloc - 1)), s.m_dz[jloc - 1])

shear(s, x, j) ==
    LET c1 == RMul(s.m_visc[j - 1], RSub(V(s, x, j), V(s, x, j - 1)))
        c2 == RMul(s.m_visc[j], RSub(V(s, x, j + 1), V(s, x, j)))
    IN  RDiv(RMul(R(2), RSub(RDiv(c2, RSub(grid(s, j + 1), grid(s, j))),
                             RDiv(c1, RSub(grid(s, j), grid(s, j - 1))))),
             RSub(grid(s, j + 1), grid(s, j - 1)))

divHeatFlux(s, x, j) ==
    LET c1 == RMul(s.m_tcon[j - 1], RSub(T(s, x, j), T(s, x, j - 1)))
        c2 == RMul(s.m_tcon[j], RSub(T(s, x, j + 1), T(s, x, j)))
    IN  RDiv(RMul(R(-2), RSub(RDiv(c2, RSub(grid(s, j + 1), grid(s, j))),
                              RDiv(c1, RSub(grid(s, j), grid(s, j - 1))))),
             RSub(grid(s, j + 1), grid(s, j - 1)))

\* the continuity residual at j without the spread-rate term
contLeftForm_noSpread(s, x, j) ==
    RNeg(RDiv(RSub(rho_u(s, x, j + 1), rho_u(s, x, j)), s.m_dz[j]))

\* flux-divergence-plus-spread form of the continuity residual at j
contLeftForm(s, x, j) ==
    RSub(RNeg(RDiv(RSub(rho_u(s, x, j + 1), rho_u(s, x, j)), s.m_dz[j])),
         RAdd(RMul(density(s, j + 1), V(s, x, j + 1)), RMul(density(s, j), V(s, x, j))))

\* the free-flow continuity residual with the two one-sided differences
\* taken on the opposite sides of the fixed point
contFree_mirrored(s, x, j) ==
    IF RGt(grid(s, j), s.m_zfixed)
    THEN RNeg(RDiv(RSub(rho_u(s, x, j + 1), rho_u(s, x, j)), s.m_dz[j]))
    ELSE IF grid(s, j) = s.m_zfixed
    THEN (IF s.m_do_energy[j] THEN RSub(T(s, x, j), s.m_tfixed)
          ELSE RSub(rho_u(s, x, j), RMul(s.m_rho[0], <<3, 10>>)))
    ELSE RNeg(RDiv(RSub(rho_u(s, x, j), rho_u(s, x, j - 1)), s.m_dz[j - 1]))

\* the free-flow continuity residual at interior point j
contFree(s, x, j) ==
    IF RGt(grid(s, j), s.m_zfixed)
    THEN RNeg(RDiv(RSub(rho_u(s, x, j), rho_u(s, x, j - 1)), s.m_dz[j - 1]))
    ELSE IF grid(s, j) = s.m_zfixed
    THEN (IF s.m_do_energy[j] THEN RSub(T(s, x, j), s.m_tfixed)
          ELSE RSub(rho_u(s, x, j), RMul(s.m_rho[0], <<3, 10>>)))
    ELSE RNeg(RDiv(RSub(rho_u(s, x, j + 1), rho_u(s, x, j)), s.m_dz[j]))

\* evalContinuity with the unstrained interior residual differenced forward
evalContinuity_forward(s, x, o, rdt, jmin, jmax) ==
    LET wr(j) == isLeft(s, j, jmin) \/ isRight(s, j, jmax) \/ isInterior(s, j, jmin, jmax)
        val(j) ==
            IF isInterior(s, j, jmin, jmax)
            THEN (IF s.m_usesLambda THEN contLeftForm(s, x, j)
                  ELSE IF s.m_isFree THEN contFree(s, x, j)
                  ELSE RSub(rho_u(s, x, j + 1), rho_u(s, x, j)))
            ELSE IF isRight(s, j, jmax)
            THEN (IF s.m_usesLambda THEN rho_u(s, x, jmax)
                  ELSE RSub(rho_u(s, x, jmax), rho_u(s, x, jmax - 1)))
            ELSE contLeftForm(s, x, jmin)
        zero(j) == 0
    IN  [rsd  |-> Assign(s, o.rsd, c_offset_U, wr, val),
         diag |-> Assign(s, o.diag, c_offset_U, wr, zero)]

\* StFlow::evalContinuity
evalContinuity(s, x, o, rdt, jmin, jmax) ==
    LET wr(j) == isLeft(s, j, jmin) \/ isRight(s, j, jmax) \/ isInterior(s, j, jmin, jmax)
        val(j) ==
            IF isInterior(s, j, jmin, jmax)
            THEN (IF s.m_usesLambda THEN contLeftForm(s, x, j)
                  ELSE IF s.m_isFree THEN contFree(s, x, j)
                  ELSE RSub(rho_u(s, x, j), rho_u(s, x, j - 1)))
            ELSE IF isRight(s, j, jmax)
            THEN (IF s.m_usesLambda THEN rho_u(s, x, jmax)
                  ELSE RSub(rho_u(s, x, jmax), rho_u(s, x, jmax - 1)))
            ELSE contLeftForm(s, x, jmin)
        zero(j) == 0
    IN  [rsd  |-> Assign(s, o.rsd, c_offset_U, wr, val),
         diag |-> Assign(s, o.diag, c_offset_U, wr, zero)]

\* StFlow::evalMomentum
evalMomentum(s, x, o, rdt, jmin, jmax) ==
    LET off(j) == inWindow(j, jmin, jmax)
        raw(j) == V(s, x, j)
        zero(j) == 0
        wr(j) == isLeft(s, j, jmin) \/ isRight(s, j, jmax) \/ isInterior(s, j, jmin, jmax)
        val(j) ==
            IF isInterior(s, j, jmin, jmax)
            THEN RSub(RDiv(RSub(RSub(RSub(shear(s, x, j), lambda(s, x, j)),
                                     RMul(rho_u(s, x, j), dVdz(s, x, j))),
                                RMul(RMul(s.m_rho[j], V(s, x, j)), V(s, x, j))),
                           s.m_rho[j]),
                      RMul(rdt, RSub(V(s, x, j), prevSoln(s, c_offset_V, j))))
            ELSE V(s, x, j)
        wd(j) == isRight(s, j, jmax) \/ isInterior(s, j, jmin, jmax)
        dv(j) == IF isInterior(s, j, jmin, jmax) THEN 1 ELSE 0
    IN  IF ~s.m_usesLambda
        THEN [rsd  |-> Assign(s, o.rsd, c_offset_V, off, raw),
              diag |-> Assign(s, o.diag, c_offset_V, off, zero)]
        ELSE [rsd  |-> Assign(s, o.rsd, c_offset_V, wr, val),
              diag |-> Assign(s, o.diag, c_offset_V, wd, dv)]

\* StFlow::evalLambda
evalLambda(s, x, o, rdt, jmin, jmax) ==
    LET off(j) == inWindow(j, jmin, jmax)
        raw(j) == lambda(s, x, j)
        zero(j) == 0
        wr(j) == isLeft(s, j, jmin) \/ isRight(s, j, jmax) \/ isInterior(s, j, jmin, jmax)
        val(j) ==
            IF isInterior(s, j, jmin, jmax) \/ isRight(s, j, jmax)
            THEN RSub(lambda(s, x, j), lambda(s, x, j - 1))
            ELSE RNeg(rho_u(s, x, jmin))
        wd(j) == isRight(s, j, jmax)
    IN  IF ~s.m_usesLambda
        THEN [rsd  |-> Assign(s, o.rsd, c_offset_L, off, raw),
              diag |-> Assign(s, o.diag, c_offset_L, off, zero)]
        ELSE [rsd  |-> Assign(s, o.rsd, c_offset_L, wr, val),
              diag |-> Assign(s, o.diag, c_offset_L, wd, zero)]

\* StFlow::grad_hk(x, j): the upwinded enthalpy gradient of species k at j
grad_hk(s, x, k, j) ==
    IF RGt(u(s, x, j), R(0))
    THEN RDiv(RSub(s.m_hk[<<k, j>>], s.m_hk[<<k, j - 1>>]), s.m_dz[j - 1])
    ELSE RDiv(RSub(s.m_hk[<<k, j + 1>>], s.m_hk[<<k, j>>]), s.m_dz[j])

\* the energy residual at an interior point j where the equation is solved
energyResidual(s, x, rdt, j) ==
    LET sum == RSum([k \in Species |->
                   RAdd(RMul(s.m_wdot[<<k, j>>], s.m_hk[<<k, j>>]),
                        RDiv(RMul(RMul(<<1, 2>>, RAdd(s.m_flux[<<k, j - 1>>],
                                                      s.m_flux[<<k, j>>])),
                                  grad_hk(s, x, k, j)), Wt(k)))], 0, NSP - 1)
        rhocp == RMul(s.m_rho[j], s.m_cp[j])
        r1 == RSub(RSub(RNeg(RMul(RMul(s.m_cp[j], rho_u(s, x, j)), dTdz(s, x, j))),
                        divHeatFlux(s, x, j)), sum)
        r2 == RDiv(r1, rhocp)
        r3 == RSub(r2, RMul(rdt, RSub(T(s, x, j), prevSoln(s, c_offset_T, j))))
    IN  RSub(r3, RDiv(s.m_qdotRadiation[j], rhocp))

\* evalEnergy with the fixed profile left out of the residual of a point where
\* the energy equation is disabled
evalEnergy_noProfile(s, x, o, rdt, jmin, jmax) ==
    LET wr(j) == isLeft(s, j, jmin) \/ isRight(s, j, jmax) \/ isInterior(s, j, jmin, jmax)
        val(j) ==
            IF isInterior(s, j, jmin, jmax) /\ s.m_do_energy[j]
            THEN energyResidual(s, x, rdt, j)
            ELSE T(s, x, j)
        wd(j) == isInterior(s, j, jmin, jmax)
        dv(j) == IF s.m_do_energy[j] THEN 1 ELSE 0
    IN  [s |-> [s EXCEPT !.m_dhk_dz = [kj \in DOMAIN s.m_dhk_dz |->
                   IF isInterior(s, kj[2], jmin, jmax) /\ s.m_do_energy[kj[2]]
                   THEN grad_hk(s, x, kj[1], kj[2]) ELSE s.m_dhk_dz[kj]]],
         o |-> [rsd  |-> Assign(s, o.rsd, c_offset_T, wr, val),
                diag |-> Assign(s, o.diag, c_offset_T, wd, dv)]]

\* StFlow::evalEnergy: the residual and diag entries, and the enthalpy
\* gradients grad_hk stores at the interior points where the equation is solved
evalEnergy(s, x, o, rdt, jmin, jmax) ==
    LET wr(j) == isLeft(s, j, jmin) \/ isRight(s, j, jmax) \/ isInterior(s, j, jmin, jmax)
        val(j) ==
            IF isInterior(s, j, jmin, jmax)
            THEN (IF s.m_do_energy[j] THEN energyResidual(s, x, rdt, j)
                  ELSE RSub(T(s, x, j), T_fixed(s, j)))
            ELSE T(s, x, j)
        wd(j) == isInterior(s, j, jmin, jmax)
        dv(j) == IF s.m_do_energy[j] THEN 1 ELSE 0
    IN  [s |-> [s EXCEPT !.m_dhk_dz = [kj \in DOMAIN s.m_dhk_dz |->
                   IF isInterior(s, kj[2], jmin, jmax) /\ s.m_do_energy[kj[2]]
                   THEN grad_hk(s, x, kj[1], kj[2]) ELSE s.m_dhk_dz[kj]]],
         o |-> [rsd  |-> Assign(s, o.rsd, c_offset_T, wr, val),
                diag |-> Assign(s, o.diag, c_offset_T, wd, dv)]]

leftExcessSpecies(s) == s.m_kExcessLeft

rightExcessSpecies(s) == s.m_kExcessRight

\* the normalization residual 1 - sum_k Y(k, j)
normalization(s, x, j) ==
    RSub(R(1), RSum([k \in Species |-> Y(s, x, k, j)], 0, NSP - 1))

\* the species residual with the left-boundary flux balance not negated
speciesResidual_unsignedLeft(s, x, rdt, jmin, jmax, k, j) ==
    IF isInterior(s, j, jmin, jmax)
    THEN LET convec == RMul(rho_u(s, x, j), dYdz(s, x, k, j))
             diffus == RDiv(RMul(R(2), RSub(s.m_flux[<<k, j>>], s.m_flux[<<k, j - 1>>])),
                            RSub(grid(s, j + 1), grid(s, j - 1)))
         IN  RSub(RDiv(RSub(RSub(RMul(Wt(k), s.m_wdot[<<k, j>>]), convec), diffus),
                       s.m_rho[j]),
                  RMul(rdt, RSub(Y(s, x, k, j), prevSoln(s, c_offset_Y + k, j))))
    ELSE IF isRight(s, j, jmax)
    THEN (IF k = rightExcessSpecies(s) THEN normalization(s, x, jmax)
          ELSE RAdd(s.m_flux[<<k, jmax - 1>>], RMul(rho_u(s, x, jmax), Y(s, x, k, jmax))))
    ELSE (IF k = leftExcessSpecies(s) THEN normalization(s, x, jmin)
          ELSE RAdd(s.m_flux[<<k, jmin>>], RMul(rho_u(s, x, jmin), Y(s, x, k, jmin))))

\* the species residual of species k at point j
speciesResidual(s, x, rdt, jmin, jmax, k, j) ==
    IF isInterior(s, j, jmin, jmax)
    THEN LET convec == RMul(rho_u(s, x, j), dYdz(s, x, k, j))
             diffus == RDiv(RMul(R(2), RSub(s.m_flux[<<k, j>>], s.m_flux[<<k, j - 1>>])),
                            RSub(grid(s, j + 1), grid(s, j - 1)))
         IN  RSub(RDiv(RSub(RSub(RMul(Wt(k), s.m_wdot[<<k, j>>]), convec), diffus),
                       s.m_rho[j]),
                  RMul(rdt, RSub(Y(s, x, k, j), prevSoln(s, c_offset_Y + k, j))))
    ELSE IF isRight(s, j, jmax)
    THEN (IF k = rightExcessSpecies(s) THEN normalization(s, x, jmax)
          ELSE RAdd(s.m_flux[<<k, jmax - 1>>], RMul(rho_u(s, x, jmax), Y(s, x, k, jmax))))
    ELSE (IF k = leftExcessSpecies(s) THEN normalization(s, x, jmin)
          ELSE RNeg(RAdd(s.m_flux[<<k, jmin>>], RMul(rho_u(s, x, jmin), Y(s, x, k, jmin)))))

\* StFlow::evalSpecies
evalSpecies(s, x, o, rdt, jmin, jmax) ==
    LET wr(j) == isLeft(s, j, jmin) \/ isRight(s, j, jmax) \/ isInterior(s, j, jmin, jmax)
    IN  [rsd  |-> [i \in DOMAIN o.rsd |->
                     IF (i % s.m_nv) >= c_offset_Y /\ wr(i \div s.m_nv)
                     THEN speciesResidual(s, x, rdt, jmin, jmax,
                                          (i % s.m_nv) - c_offset_Y, i \div s.m_nv)
                     ELSE o.rsd[i]],
         diag |-> [i \in DOMAIN o.diag |->
                     IF (i % s.m_nv) >= c_offset_Y /\ isInterior(s, i \div s.m_nv, jmin, jmax)
                     THEN 1
                     ELSE IF /\ (i % s.m_nv) = c_offset_Y + rightExcessSpecies(s)
                             /\ isRight(s, i \div s.m_nv, jmax)
                     THEN 0
                     ELSE o.diag[i]]]

\* StFlow::evalElectricField
evalElectricField_interior(s, x, o, rdt, jmin, jmax) ==
    LET wr(j) == isInterior(s, j, jmin, jmax)
        raw(j) == x[index(s, c_offset_E, j)]
    IN  [rsd |-> Assign(s, o.rsd, c_offset_E, wr, raw), diag |-> o.diag]

evalElectricField(s, x, o, rdt, jmin, jmax) ==
    LET wr(j) == inWindow(j, jmin, jmax)
        raw(j) == x[index(s, c_offset_E, j)]
    IN  [rsd |-> Assign(s, o.rsd, c_offset_E, wr, raw), diag |-> o.diag]

(* -------------------------- residual orchestrator --------------------- *)

\* the skip test with the upper limit one point too far
outsideInfluence_wideUpper(s, jGlobal) ==
    jGlobal # npos /\ (SzAdd(jGlobal, 1) < s.m_jstart
                       \/ jGlobal > SzAdd(s.m_jstart + s.m_points - 1, 2))

\* whether eval skips the global point jGlobal
outsideInfluence(s, jGlobal) ==
    jGlobal # npos /\ (SzAdd(jGlobal, 1) < firstPoint(s)
                       \/ jGlobal > SzAdd(lastPoint(s), 1))

\* the window [jmin, jmax] eval computes for jGlobal
evalWindow(s, jGlobal) ==
    IF jGlobal = npos
    THEN [jmin |-> 0, jmax |-> SzSub(s.m_points, 1)]
    ELSE LET jpt == IF jGlobal = 0 THEN 0 ELSE SzSub(jGlobal, firstPoint(s))
         IN  [jmin |-> SzSub(SzMax(jpt, 1), 1),
              jmax |-> SzMin(SzAdd(jpt, 1), SzSub(s.m_points, 1))]

\* the part of eval after updateProperties, for the window w: the radiative
\* loss and the assemblers
eval_assemble(s1, x, o, rdt, w) ==
    Bind(IF s1.m_do_radiation THEN computeRadiation(s1, x, w.jmin, w.jmax)
         ELSE s1, LAMBDA s2 :
    Bind(evalContinuity(s2, x, o, rdt, w.jmin, w.jmax), LAMBDA o1 :
    Bind(evalMomentum(s2, x, o1, rdt, w.jmin, w.jmax), LAMBDA o2 :
    Bind(evalEnergy(s2, x, o2, rdt, w.jmin, w.jmax), LAMBDA e3 :
    Bind(evalLambda(e3.s, x, e3.o, rdt, w.jmin, w.jmax), LAMBDA o4 :
    Bind(evalElectricField(e3.s, x, o4, rdt, w.jmin, w.jmax), LAMBDA o5 :
    Bind(evalSpecies(e3.s, x, o5, rdt, w.jmin, w.jmax), LAMBDA o6 :
    [s |-> e3.s, o |-> o6])))))))

\* StFlow::eval(jGlobal, x, rsd, diag, rdt) on the local part x of the state
\* buffer and the local part o of the residual and diag buffers: the domain
\* and the buffers as the call leaves them
eval(s, jGlobal, x, o, rdt) ==
    IF outsideInfluence(s, jGlobal) THEN [s |-> s, o |-> o]
    ELSE Bind(evalWindow(s, jGlobal), LAMBDA w :
         Bind(updateProperties(s, jGlobal, x, w.jmin, w.jmax), LAMBDA s1 :
         eval_assemble(s1, x, o, rdt, w)))

\* the state of the ThermoPhase as eval leaves it
gasAfterEval(s, jGlobal, x, g) ==
    IF outsideInfluence(s, jGlobal) THEN g
    ELSE gasAfterProperties(s, jGlobal, x, evalWindow(s, jGlobal).jmin,
                            evalWindow(s, jGlobal).jmax, g)

(* ----------------------------- configuration -------------------------- *)

\* Domain1D::needJacUpdate
needJacUpdate(s) == [s EXCEPT !.m_jacStale = TRUE]

\* the refiner activity of the velocity, spread-rate and temperature components
setActiveUVT(s, b) ==
    [s EXCEPT !.m_refiner = [c \in DOMAIN s.m_refiner |->
        IF c \in {c_offset_U, c_offset_V, c_offset_T} THEN b ELSE s.m_refiner[c]]]

\* the energy flags with the addressed point(s) set to b
energyFlags(s, j, b) ==
    [i \in DOMAIN s.m_do_energy |-> IF j = npos \/ i = j THEN b ELSE s.m_do_energy[i]]

\* solveEnergyEqn signalling the Jacobian invalidation on every call
solveEnergyEqn_alwaysSignals(s, j) ==
    LET changed == TRUE
        s1 == setActiveUVT([s EXCEPT !.m_do_energy = energyFlags(s, j, TRUE)], TRUE)
    IN  IF changed THEN needJacUpdate(s1) ELSE s1

\* StFlow::solveEnergyEqn(j), j = npos addressing every point
solveEnergyEqn(s, j) ==
    LET changed == energyFlags(s, j, TRUE) # s.m_do_energy
        s1 == setActiveUVT([s EXCEPT !.m_do_energy = energyFlags(s, j, TRUE)], TRUE)
    IN  IF changed THEN needJacUpdate(s1) ELSE s1

\* StFlow::fixTemperature(j), j = npos addressing every point
fixTemperature(s, j) ==
    LET changed == energyFlags(s, j, FALSE) # s.m_do_energy
        s1 == setActiveUVT([s EXCEPT !.m_do_energy = energyFlags(s, j, FALSE)], FALSE)
    IN  IF changed THEN needJacUpdate(s1) ELSE s1

\* StFlow::enableSoret(withSoret)
enableSoret(s, withSoret) == [s EXCEPT !.m_do_soret = withSoret]

\* StFlow::enableRadiation(doRadiation)
enableRadiation(s, doRadiation) == [s EXCEPT !.m_do_radiation = doRadiation]

\* the electric-field operations of StFlow
ElectricOps ==
    {"solveElectricField", "fixElectricField", "doElectricField",
     "getSolvingStage", "setSolvingStage"}

\* StFlow::solveElectricField(j), fixElectricField(j), doElectricField(j),
\* getSolvingStage() and setSolvingStage(stage): each only throws
electricField(s, op, arg) == [s |-> s, err |-> "NotImplementedError"]

\* e lies in the closed interval [0, 1]
InUnitInterval(e) == RLe(R(0), e) /\ RLe(e, R(1))

\* the stores of setBoundaryEmissivities with the left value stored as
\* soon as it has passed its own test
setBoundaryEmissivities_leftFirst(s, e_left, e_right) ==
    IF RLt(e_left, R(0)) \/ RGt(e_left, R(1))
    THEN [s |-> s, err |-> "CanteraError"]
    ELSE IF RLt(e_right, R(0)) \/ RGt(e_right, R(1))
    THEN [s |-> [s EXCEPT !.m_epsilon_left = e_left], err |-> "CanteraError"]
    ELSE [s |-> [s EXCEPT !.m_epsilon_left = e_left, !.m_epsilon_right = e_right],
          err |-> "none"]

\* StFlow::setBoundaryEmissivities(e_left, e_right)
setBoundaryEmissivities(s, e_left, e_right) ==
    IF RLt(e_left, R(0)) \/ RGt(e_left, R(1))
    THEN [s |-> s, err |-> "CanteraError"]
    ELSE IF RLt(e_right, R(0)) \/ RGt(e_right, R(1))
    THEN [s |-> s, err |-> "CanteraError"]
    ELSE [s |-> [s EXCEPT !.m_epsilon_left = e_left, !.m_epsilon_right = e_right],
          err |-> "none"]

TransportModels == {"mixture-averaged", "multicomponent", "none"}

\* StFlow::setTransport(trans), trans being the model name of the transport
\* object or "empty" for an empty handle
setTransport(s, trans) ==
    IF trans = "empty" THEN [s |-> s, err |-> "CanteraError"]
    ELSE LET s1 == [s EXCEPT !.m_trans = trans]
         IN  IF trans = "none" THEN [s |-> s1, err |-> "CanteraError"]
             ELSE LET multi == trans \in {"multicomponent", "multicomponent-CK"}
                      s2 == [s1 EXCEPT
                               !.m_do_multicomponent = multi,
                               !.m_diff = Arr2Resize(s1.m_diff, s1.m_points, R(0)),
                               !.m_multidiff = IF multi
                                   THEN Arr3Resize(s1.m_multidiff, s1.m_points, R(0))
                                   ELSE s1.m_multidiff,
                               !.m_dthermal = IF multi
                                   THEN Arr2Resize(s1.m_dthermal, s1.m_points, R(0))
                                   ELSE s1.m_dthermal]
                  IN  [s |-> s2, err |-> "none"]

\* StFlow::setTransportModel(trans): the Solution builds the transport object
\* of that model and its changed-callback hands it to setTransport
setTransportModel(s, trans) == setTransport(s, trans)

\* linearInterp(x, xpts, fpts) over the sequences xpts, fpts
linearInterp(xx, xpts, fpts) ==
    IF RLe(xx, xpts[1]) THEN fpts[1]
    ELSE IF ~RLt(xx, xpts[Len(xpts)]) THEN fpts[Len(fpts)]
    ELSE LET loc  == CHOOSE i \in 1 .. Len(xpts) :
                        /\ ~RLt(xpts[i], xx)
                        /\ \A m \in 1 .. (i - 1) : RLt(xpts[m], xx)
             iloc == loc - 1
         IN  RAdd(fpts[iloc],
                  RDiv(RMul(RSub(xx, xpts[iloc]), RSub(fpts[iloc + 1], fpts[iloc])),
                       RSub(xpts[iloc + 1], xpts[iloc])))

\* the first interval j whose end temperatures bracket m_tfixed, or m_points
\* when there is none
firstCrossing(s, x) ==
    LET hit == {j \in 0 .. (s.m_points - 2) :
                  RLe(RMul(RSub(T(s, x, j), s.m_tfixed),
                           RSub(T(s, x, j + 1), s.m_tfixed)), R(0))}
    IN  IF hit = {} THEN s.m_points ELSE CHOOSE j \in hit : \A i \in hit : j <= i

\* _finalize with the Soret check made after the updates instead of first
finalize_lateCheck(s, x) ==
    LET nz == Len(s.m_zfix)
        e  == s.m_do_energy[0]
        ft == [j \in DOMAIN s.m_fixedtemp |->
                 IF e \/ nz = 0 THEN T(s, x, j)
                 ELSE linearInterp(
                          RDiv(RSub(grid(s, j), grid(s, 0)),
                               RSub(grid(s, s.m_points - 1), grid(s, 0))),
                          s.m_zfix, s.m_tfix)]
    IN  Bind([s EXCEPT !.m_fixedtemp = ft], LAMBDA s1 :
        Bind(IF e THEN solveEnergyEqn(s1, npos) ELSE s1, LAMBDA s2 :
        Bind(firstCrossing(s2, x), LAMBDA jc :
        [s   |-> IF /\ s2.m_isFree
                    /\ s2.m_tfixed # Undef
                    /\ \A j \in 0 .. (s2.m_points - 1) : grid(s2, j) # s2.m_zfixed
                    /\ jc < s2.m_points
                 THEN [s2 EXCEPT !.m_tfixed = T(s2, x, jc + 1),
                                 !.m_zfixed = grid(s2, jc + 1)]
                 ELSE s2,
         err |-> IF ~s.m_do_multicomponent /\ s.m_do_soret
                 THEN "CanteraError" ELSE "none"])))

\* StFlow::_finalize(x)
finalize(s, x) ==
    IF ~s.m_do_multicomponent /\ s.m_do_soret
    THEN [s |-> s, err |-> "CanteraError"]
    ELSE LET nz == Len(s.m_zfix)
             e  == s.m_do_energy[0]
             ft == [j \in DOMAIN s.m_fixedtemp |->
                      IF e \/ nz = 0 THEN T(s, x, j)
                      ELSE linearInterp(
                               RDiv(RSub(grid(s, j), grid(s, 0)),
                                    RSub(grid(s, s.m_points - 1), grid(s, 0))),
                               s.m_zfix, s.m_tfix)]
         IN  Bind([s EXCEPT !.m_fixedtemp = ft], LAMBDA s1 :
             Bind(IF e THEN solveEnergyEqn(s1, npos) ELSE s1, LAMBDA s2 :
             Bind(firstCrossing(s2, x), LAMBDA jc :
             [s   |-> IF /\ s2.m_isFree
                         /\ s2.m_tfixed # Undef
                         /\ \A j \in 0 .. (s2.m_points - 1) : grid(s2, j) # s2.m_zfixed
                         /\ jc < s2.m_points
                      THEN [s2 EXCEPT !.m_tfixed = T(s2, x, jc + 1),
                                      !.m_zfixed = grid(s2, jc + 1)]
                      ELSE s2,
              err |-> "none"])))

\* StFlow::setMeta(state): state maps the keys present to their values; a
\* flag list is [scalar |-> TRUE, v |-> flag] or [scalar |-> FALSE, v |-> flags],
\* byName telling a map keyed by name from a vector, which is the only
\* non-scalar form asVector accepts
setMeta(s, state) ==
    LET has(key) == key \in DOMAIN state
        s1 == IF has("energy-enabled")
              THEN [s EXCEPT !.m_do_energy =
                      IF state["energy-enabled"].scalar
                      THEN [j \in 0 .. (s.m_points - 1) |-> state["energy-enabled"].v]
                      ELSE state["energy-enabled"].v]
              ELSE s
        r2 == setTransportModel(s1, IF has("transport-model")
                                    THEN state["transport-model"]
                                    ELSE "mixture-averaged")
        s2 == r2.s
        s3 == IF has("Soret-enabled")
              THEN [s2 EXCEPT !.m_do_soret = state["Soret-enabled"]] ELSE s2
        speciesByName == has("species-enabled")
                         /\ ~state["species-enabled"].scalar
                         /\ state["species-enabled"].byName
        s4 == IF has("species-enabled") /\ ~speciesByName
              THEN [s3 EXCEPT !.m_do_species =
                      IF state["species-enabled"].scalar
                      THEN [k \in Species |-> state["species-enabled"].v]
                      ELSE state["species-enabled"].v]
              ELSE s3
        s5 == IF has("radiation-enabled")
              THEN (IF state["radiation-enabled"]
                    THEN [s4 EXCEPT !.m_do_radiation = TRUE,
                                    !.m_epsilon_left = state["emissivity-left"],
                                    !.m_epsilon_right = state["emissivity-right"]]
                    ELSE [s4 EXCEPT !.m_do_radiation = FALSE])
              ELSE s4
        s6 == IF has("refine-criteria")
              THEN [s5 EXCEPT !.m_criteria = state["refine-criteria"]] ELSE s5
        s7 == IF has("fixed-point")
              THEN [s6 EXCEPT !.m_zfixed = state["fixed-point"].location,
                              !.m_tfixed = state["fixed-point"].temperature]
              ELSE s6
    IN  IF r2.err # "none" THEN r2
        ELSE IF speciesByName THEN [s |-> s3, err |-> "CanteraError"]
        ELSE [s |-> s7, err |-> "none"]

\* StFlow::componentActive(n)
componentActive(s, n) ==
    IF n = c_offset_V \/ n = c_offset_L THEN s.m_usesLambda
    ELSE IF n = c_offset_E THEN FALSE
    ELSE TRUE

\* the components of s that are active
ActiveComponents(s) == {n \in 0 .. (s.m_nv - 1) : componentActive(s, n)}

\* a flag list as getMeta writes it: the flag itself when all entries agree,
\* the list of entries otherwise (a map keyed by species name for the
\* species flags, tagged byName)
flagList(v, byName) ==
    IF \A i \in DOMAIN v : \A j \in DOMAIN v : v[i] = v[j]
    THEN [scalar |-> TRUE, byName |-> FALSE, v |-> v[CHOOSE i \in DOMAIN v : TRUE]]
    ELSE [scalar |-> FALSE, byName |-> byName, v |-> v]

\* StFlow::getMeta()
getMeta(s) ==
    LET always == ("transport-model" :> s.m_trans)
                  @@ ("radiation-enabled" :> s.m_do_radiation)
                  @@ ("energy-enabled" :> flagList(s.m_do_energy, FALSE))
                  @@ ("Soret-enabled" :> s.m_do_soret)
                  @@ ("species-enabled" :> flagList(s.m_do_species, TRUE))
                  @@ ("refine-criteria" :> s.m_criteria)
        emissivities == IF s.m_do_radiation
                        THEN ("emissivity-left" :> s.m_epsilon_left)
                             @@ ("emissivity-right" :> s.m_epsilon_right)
                        ELSE << >>
        fixedPoint == IF s.m_zfixed # Undef
                      THEN ("fixed-point" :> [location |-> s.m_zfixed,
                                              temperature |-> s.m_tfixed])
                      ELSE << >>
    IN  always @@ emissivities @@ fixedPoint

\* the values of component n of the solution x of s, point by point
componentData(s, x, n) == [j \in 0 .. (s.m_points - 1) |-> x[index(s, n, j)]]

\* ThermoPhase::pressure of the phase a solution array holds at location 0:
\* the ideal gas of the temperature, density and mass fractions stored there
pressure(arr) ==
    LET g == [Tg |-> arr.comps[c_offset_T][0],
              Yg |-> [k \in Species |-> arr.comps[c_offset_Y + k][0]],
              P |-> R(1)]
    IN  IF c_offset_T \in DOMAIN arr.comps
           /\ \A k \in Species : (c_offset_Y + k) \in DOMAIN arr.comps
        THEN RDiv(RMul(arr.D[0], g.Tg), meanMolecularWeight(g))
        ELSE arr.press

\* StFlow::asArray(soln): the grid, the values of every active component,
\* the density, the radiative loss when radiation is on, and the metadata
asArray(s, soln) ==
    Bind([grid |-> s.m_z,
          comps |-> [n \in ActiveComponents(s) |-> componentData(s, soln, n)],
          D |-> s.m_rho,
          press |-> R(1),
          qdot |-> IF s.m_do_radiation THEN s.m_qdotRadiation ELSE << >>,
          meta |-> getMeta(s)],
         LAMBDA a : [a EXCEPT !.press = pressure(a)])

\* the copy loop with the test of componentActive left out
fromArray_copyAll(s, arr, soln) ==
    [i \in DOMAIN soln |->
        IF (i % s.m_nv) \in DOMAIN arr.comps
        THEN arr.comps[i % s.m_nv][i \div s.m_nv]
        ELSE soln[i]]

\* the solution buffer after the copy loop of fromArray: an active component
\* the array holds is copied, every other entry keeps its value
fromArray_copy(s, arr, soln) ==
    [i \in DOMAIN soln |->
        IF componentActive(s, i % s.m_nv) /\ (i % s.m_nv) \in DOMAIN arr.comps
        THEN arr.comps[i % s.m_nv][i \div s.m_nv]
        ELSE soln[i]]

\* the active components fromArray warns about: those the array lacks
fromArray_warned(s, arr) == ActiveComponents(s) \ DOMAIN arr.comps

\* StFlow::fromArray(arr, soln), arr holding the grid, the phase whose
\* pressure is arr.press, components by index and the metadata: the domain
\* as the call leaves it, the error it raised, the solution buffer as it
\* leaves it and the components it warned about
fromArray(s, arr, soln) ==
    Bind(setupGrid([s EXCEPT !.m_press = arr.press], s.m_points, arr.grid), LAMBDA r :
        IF r.err # "none"
        THEN [s |-> r.s, err |-> r.err, soln |-> soln, warned |-> {}]
        ELSE Bind(fromArray_copy(r.s, arr, soln), LAMBDA x :
             Bind(updateProperties(r.s, npos, x, 0, SzSub(r.s.m_points, 1)), LAMBDA s1 :
             Bind(setMeta(s1, arr.meta), LAMBDA r2 :
             [s |-> r2.s, err |-> r2.err, soln |-> x,
              warned |-> fromArray_warned(r.s, arr)]))))

(* ------------------------------ the caller ---------------------------- *)

\* largest global index of the first point of a domain
MaxFirst == 2

\* the state of the ThermoPhase the domains are constructed with
InitGas == [Tg |-> R(1), Yg |-> [k \in Species |-> IF k = 0 THEN R(1) ELSE R(0)],
            P |-> R(1)]

\* the position of a thread that is not inside eval
Idle == [at |-> "idle"]

\* value of a residual entry the evaluation has not written
Unwritten == <<0, -1>>

\* value of a diag entry the evaluation has not written
DiagUnset == -1

\* residual and diag buffers handed to an evaluation, nothing written yet
FreshOut(s) ==
    [rsd  |-> [i \in 0 .. (s.m_nv * s.m_points - 1) |-> Unwritten],
     diag |-> [i \in 0 .. (s.m_nv * s.m_points - 1) |-> DiagUnset]]

NoArgs == [none |-> TRUE]

\* record of the last call: the operation, the domain, its arguments, the
\* domain as it was before the call, and the error the call raised
Call(op, d, args, pre, err) ==
    [op |-> op, d |-> d, args |-> args, pre |-> pre, err |-> err]

\* coordinate sequences of n points offered to setupGrid: the unit-spaced
\* grid from c0, with the points from jb on shifted by delta; delta = 0 and
\* delta = 1 give strictly increasing grids, delta = -1 repeats a coordinate
\* at jb and delta = -2 steps back there
GridOf(n, c0, jb, delta) ==
    [j \in 0 .. (n - 1) |-> R(c0 + j + (IF j >= jb THEN delta ELSE 0))]

GridInputs(n) ==
    {GridOf(n, c0, jb, delta) : c0 \in {0, 1}, jb \in 1 .. n, delta \in {-2, -1, 0, 1}}

StrictlyIncreasing(z, n) == \A j \in 1 .. (n - 1) : RGt(z[j], z[j - 1])

\* the states a grid point is given: velocity, spread rate, temperature,
\* lambda, electric field and the mass fractions.  State 1 is pure species 0,
\* state 2 is a normalised mixture richest in species 1, and state 3 is an
\* unnormalised composition (every mass fraction 1).
PointIds == {1, 2, 3}

PointState(id, n) ==
    IF n = c_offset_U THEN (IF id = 2 THEN R(2) ELSE R(1))
    ELSE IF n = c_offset_V THEN (IF id = 1 THEN R(0) ELSE R(1))
    ELSE IF n = c_offset_T THEN (IF id = 1 THEN R(1) ELSE R(2))
    ELSE IF n = c_offset_L THEN R(id - 1)
    ELSE IF n = c_offset_E THEN R(id - 1)
    ELSE LET k == n - c_offset_Y
         IN  IF id = 1 THEN (IF k = 0 THEN R(1) ELSE R(0))
             ELSE IF id = 2 THEN (IF k = 0 THEN <<1, 4>>
                                  ELSE IF k = 1 THEN <<3, 4>> ELSE R(0))
             ELSE R(1)

\* the local state buffer whose point j is in the state ids[j]
xOf(s, ids) ==
    [i \in 0 .. (s.m_nv * s.m_points - 1) |-> PointState(ids[i \div s.m_nv], i % s.m_nv)]

\* state buffers of the domain s: the uniform profiles and the profiles that
\* step from one point state to another after the first point
Profiles(s) ==
    {xOf(s, [j \in 0 .. (s.m_points - 1) |-> IF j < 1 THEN a ELSE b]) :
        a \in PointIds, b \in PointIds}

\* every profile over the point states
AllProfiles(s) == {xOf(s, ids) : ids \in [0 .. (s.m_points - 1) -> PointIds]}

\* global point indices offered to eval
GlobalPoints == (0 .. (MaxFirst + MaxPoints + 2)) \cup {npos}

\* the local points of s as global indices, and npos
OwnPoints(s) == (firstPoint(s) .. lastPoint(s)) \cup {npos}

(* ------------------------------- actions ------------------------------ *)

SetupGrid(d) ==
    \E n \in 1 .. MaxPoints : \E z \in GridInputs(n) :
        \E r \in {setupGrid(flow[d], n, z)} :
            /\ flow' = [flow EXCEPT ![d] = r.s]
            /\ last' = Call("setupGrid", d, [n |-> n, z |-> z], flow[d], r.err)
            /\ UNCHANGED <<out, gas, pc>>

\* eval is called on domains with at least two points, in configurations
\* that pass the check of _finalize (Sim1D finalizes before it evaluates)
CanEval(s) == s.m_points >= 2 /\ ~(s.m_do_soret /\ ~s.m_do_multicomponent)

Eval(d, JG, XS, RDT) ==
    /\ CanEval(flow[d])
    /\ \E jg \in JG : \E x \in XS : \E rdt \in RDT :
        \E o \in {FreshOut(flow[d])} : \E r \in {eval(flow[d], jg, x, o, rdt)} :
            /\ flow' = [flow EXCEPT ![d] = r.s]
            /\ out' = [out EXCEPT ![d] = r.o]
            /\ last' = Call("eval", d, [jg |-> jg, x |-> x, rdt |-> rdt], flow[d], "none")
            /\ gas' = gasAfterEval(flow[d], jg, x, gas)
            /\ UNCHANGED pc

\* setupGrid of domain d to the unit-spaced grid of any number of points
Regrid(d) ==
    \E n \in 1 .. MaxPoints :
        \E r \in {setupGrid(flow[d], n, GridOf(n, 0, n, 0))} :
            /\ flow' = [flow EXCEPT ![d] = r.s]
            /\ last' = Call("setupGrid", d, [n |-> n, z |-> GridOf(n, 0, n, 0)],
                            flow[d], r.err)
            /\ UNCHANGED <<out, gas, pc>>

Finalize(d, XS) ==
    \E x \in XS :
        \E r \in {finalize(flow[d], x)} :
            /\ flow' = [flow EXCEPT ![d] = r.s]
            /\ last' = Call("_finalize", d, [x |-> x], flow[d], r.err)
            /\ UNCHANGED <<out, gas, pc>>

SolveEnergyEqn(d) ==
    \E j \in (0 .. (flow[d].m_points - 1)) \cup {npos} :
        /\ flow' = [flow EXCEPT ![d] = solveEnergyEqn(flow[d], j)]
        /\ last' = Call("solveEnergyEqn", d, [j |-> j], flow[d], "none")
        /\ UNCHANGED <<out, gas, pc>>

FixTemperature(d) ==
    \E j \in (0 .. (flow[d].m_points - 1)) \cup {npos} :
        /\ flow' = [flow EXCEPT ![d] = fixTemperature(flow[d], j)]
        /\ last' = Call("fixTemperature", d, [j |-> j], flow[d], "none")
        /\ UNCHANGED <<out, gas, pc>>

EnableSoret(d) ==
    \E b \in BOOLEAN :
        /\ flow' = [flow EXCEPT ![d] = enableSoret(flow[d], b)]
        /\ last' = Call("enableSoret", d, [withSoret |-> b], flow[d], "none")
        /\ UNCHANGED <<out, gas, pc>>

EnableRadiation(d) ==
    \E b \in BOOLEAN :
        /\ flow' = [flow EXCEPT ![d] = enableRadiation(flow[d], b)]
        /\ last' = Call("enableRadiation", d, [doRadiation |-> b], flow[d], "none")
        /\ UNCHANGED <<out, gas, pc>>

\* one of the electric-field operations with a point, stage or npos
ElectricField(d) ==
    \E op \in ElectricOps : \E arg \in (0 .. flow[d].m_points) \cup {npos} :
        \E r \in {electricField(flow[d], op, arg)} :
            /\ flow' = [flow EXCEPT ![d] = r.s]
            /\ last' = Call(op, d, [arg |-> arg], flow[d], r.err)
            /\ UNCHANGED <<out, gas, pc>>

\* the doubles offered as emissivities: below, at the ends of, inside and
\* above [0, 1], and NaN
Emissivities == {R(-1), R(0), <<1, 2>>, R(1), R(2), NaN}

SetBoundaryEmissivities(d) ==
    \E e_left \in Emissivities : \E e_right \in Emissivities :
        \E r \in {setBoundaryEmissivities(flow[d], e_left, e_right)} :
            /\ flow' = [flow EXCEPT ![d] = r.s]
            /\ last' = Call("setBoundaryEmissivities", d,
                            [e_left |-> e_left, e_right |-> e_right], flow[d], r.err)
            /\ UNCHANGED <<out, gas, pc>>

SetTransport(d, TS) ==
    \E trans \in TS :
        \E r \in {setTransport(flow[d], trans)} :
            /\ flow' = [flow EXCEPT ![d] = r.s]
            /\ last' = Call("setTransport", d, [trans |-> trans], flow[d], r.err)
            /\ UNCHANGED <<out, gas, pc>>

SetMeta(d, MS) ==
    \E state \in MS :
        \E r \in {setMeta(flow[d], state)} :
            /\ flow' = [flow EXCEPT ![d] = r.s]
            /\ last' = Call("setMeta", d, [state |-> state], flow[d], r.err)
            /\ UNCHANGED <<out, gas, pc>>

\* values a read beyond the end of m_dthermal may return
Junk == {R(0), R(1)}

FromArray(d, MS) ==
    \E meta \in MS : \E junk \in Junk :
        \E x \in {xOf(flow[d], [j \in 0 .. (flow[d].m_points - 1) |-> 2])} :
        \E arr \in {[grid |-> GridOf(flow[d].m_points, 0, flow[d].m_points, 0),
                     comps |-> [n \in ActiveComponents(flow[d])
                                   |-> componentData(flow[d], x, n)],
                     press |-> R(1),
                     meta |-> meta]} :
            \E r \in {fromArray([flow[d] EXCEPT !.beyond_dthermal = junk], arr, x)} :
                /\ flow' = [flow EXCEPT ![d] = [r.s EXCEPT !.beyond_dthermal = R(0)]]
                /\ last' = Call("fromArray", d,
                                [arr |-> arr, x |-> x, prior |-> x, soln |-> r.soln,
                                 warned |-> r.warned], flow[d], r.err)
                /\ gas' = gasAfterProperties(r.s, npos, r.soln, 0, SzSub(r.s.m_points, 1), gas)
                /\ UNCHANGED <<out, pc>>

\* the flow type a domain was constructed with
ModeOf(s) ==
    IF s.m_isFree THEN "free-flow"
    ELSE IF s.m_usesLambda THEN "axisymmetric-flow"
    ELSE "unstrained-flow"

\* a solution buffer of s holding zero everywhere
ZeroSoln(s) == [i \in 0 .. (s.m_nv * s.m_points - 1) |-> R(0)]

\* asArray of domain d for a solution of XS; the array is kept in last
AsArray(d, XS) ==
    \E x \in XS :
        \E arr \in {asArray(flow[d], x)} :
            /\ last' = Call("asArray", d, [arr |-> arr, x |-> x], flow[d], "none")
            /\ UNCHANGED <<flow, out, gas, pc>>

\* the array just exported from domain src is imported into a freshly
\* constructed domain of the same flow type and point count, which
\* becomes domain d
ImportExported(src, d) ==
    /\ last.op = "asArray" /\ last.d = src
    /\ \E fresh \in {StFlow(flow[src].m_points, ModeOf(flow[src]), 0)} :
       \E r \in {fromArray(fresh, last.args.arr, ZeroSoln(fresh))} :
            /\ flow' = [flow EXCEPT ![d] = r.s]
            /\ last' = Call("fromArray", d,
                            [arr |-> last.args.arr, x |-> last.args.x,
                             prior |-> ZeroSoln(fresh),
                             soln |-> r.soln, warned |-> r.warned], fresh, r.err)
            /\ gas' = gasAfterProperties(r.s, npos, r.soln, 0, SzSub(r.s.m_points, 1), gas)
            /\ UNCHANGED <<out, pc>>

\* getMeta of domain d; the map is kept in last
GetMeta(d) ==
    /\ last' = Call("getMeta", d, [state |-> getMeta(flow[d])], flow[d], "none")
    /\ UNCHANGED <<flow, out, gas, pc>>

\* the map just produced by getMeta of domain src is handed to setMeta of a
\* freshly constructed domain of the same flow type on the same grid, which
\* becomes domain d
SetMetaExported(src, d) ==
    /\ last.op = "getMeta" /\ last.d = src
    /\ \E fresh \in {setupGrid(StFlow(flow[src].m_points, ModeOf(flow[src]), 0),
                               flow[src].m_points, flow[src].m_z).s} :
       \E r \in {setMeta(fresh, last.args.state)} :
            /\ flow' = [flow EXCEPT ![d] = r.s]
            /\ last' = Call("setMeta", d, [state |-> last.args.state, from |-> src],
                            fresh, r.err)
            /\ UNCHANGED <<out, gas, pc>>

\* the sets of component fields a solution array may hold: every
\* component, inactive ones included; all but the temperature; the
\* velocity and the electric field only; none
FieldSets(s) ==
    {0 .. (s.m_nv - 1), (0 .. (s.m_nv - 1)) \ {c_offset_T},
     {c_offset_U, c_offset_E}, {}}

\* metadata of the arrays offered to the import
ImportedMeta ==
    ("refine-criteria" :> "imported")
    @@ ("energy-enabled" :> [scalar |-> TRUE, byName |-> FALSE, v |-> TRUE])

\* fromArray of domain d: the array holds the fields of one of FieldSets
\* with the values of a solution of XS, the buffer holds a solution of PS
ImportFields(d, XS, PS) ==
    \E N \in FieldSets(flow[d]) : \E x \in XS : \E prior \in PS :
        \E arr \in {[grid |-> flow[d].m_z,
                     comps |-> [n \in N |-> componentData(flow[d], x, n)],
                     press |-> R(1),
                     meta |-> ImportedMeta]} :
            \E r \in {fromArray(flow[d], arr, prior)} :
                /\ flow' = [flow EXCEPT ![d] = r.s]
                /\ last' = Call("fromArray", d,
                                [arr |-> arr, x |-> x, prior |-> prior,
                                 soln |-> r.soln, warned |-> r.warned],
                                flow[d], r.err)
                /\ gas' = gasAfterProperties(r.s, npos, r.soln, 0, SzSub(r.s.m_points, 1), gas)
                /\ UNCHANGED <<out, pc>>

(* --------------- eval of a whole domain, step by step ----------------- *)

\* eval(npos, x, ...) of domain d enters: the window is the whole domain,
\* updateThermo has run and left the ThermoPhase at the last point
EvalBegin(d, XS) ==
    /\ pc[d].at = "idle" /\ CanEval(flow[d])
    /\ \E x \in XS :
        /\ flow' = [flow EXCEPT ![d] = updateThermo(flow[d], x, 0, SzSub(flow[d].m_points, 1))]
        /\ gas' = setGas(flow[d], x, SzSub(flow[d].m_points, 1))
        /\ pc' = [pc EXCEPT ![d] = [at |-> "setGas", j |-> 0, x |-> x, pre |-> flow[d]]]
    /\ UNCHANGED <<out, last>>

\* updateTransport of domain d calls setGasAtMidpoint for its interval j
TransportSet(d) ==
    /\ pc[d].at = "setGas"
    /\ gas' = setGasAtMidpoint(flow[d], pc[d].x, pc[d].j)
    /\ pc' = [pc EXCEPT ![d].at = "read"]
    /\ UNCHANGED <<flow, out, last>>

\* updateTransport of domain d reads the collaborators for its interval j
\* and moves to the next interval, or on to the rest of eval
TransportRead(d) ==
    /\ pc[d].at = "read"
    /\ flow' = [flow EXCEPT ![d] =
                  updateTransport_read(flow[d], [j \in {pc[d].j} |-> gas],
                                       pc[d].j, pc[d].j + 1)]
    /\ pc' = [pc EXCEPT ![d].j = pc[d].j + 1,
                        ![d].at = IF pc[d].j + 1 < flow[d].m_points - 1
                                  THEN "setGas" ELSE "assemble"]
    /\ UNCHANGED <<out, gas, last>>

\* the rest of eval of domain d: excess species, diffusive fluxes, radiative
\* loss and the assemblers, none of which touches the ThermoPhase
EvalEnd(d, RDT) ==
    /\ pc[d].at = "assemble"
    /\ \E rdt \in RDT :
       \E w \in {evalWindow(flow[d], npos)} :
       \E s3 \in {updateProperties_finish(flow[d], npos, pc[d].x, w.jmin, w.jmax)} :
       \E r \in {eval_assemble(s3, pc[d].x, FreshOut(flow[d]), rdt, w)} :
            /\ flow' = [flow EXCEPT ![d] = r.s]
            /\ out' = [out EXCEPT ![d] = r.o]
            /\ last' = Call("eval", d, [jg |-> npos, x |-> pc[d].x, rdt |-> rdt],
                            pc[d].pre, "none")
            /\ pc' = [pc EXCEPT ![d].at = "done"]
    /\ UNCHANGED gas

(* ----------------- the grid: construction and setupGrid --------------- *)

InitGrid ==
    /\ \E p \in 1 .. MaxPoints :
          flow = [d \in Dom |-> StFlow(IF d = 1 THEN p ELSE 2, "unstrained-flow", 0)]
    /\ out = [d \in Dom |-> FreshOut(flow[d])]
    /\ last = Call("StFlow", 1, NoArgs, flow[1], "none")
    /\ gas = InitGas /\ pc = [d \in Dom |-> Idle]

NextGrid == SetupGrid(1)

SpecGrid == InitGrid /\ [][NextGrid]_vars

(* ------------------- the evaluation window of eval -------------------- *)

\* a constructed domain on the unit-spaced grid of p points
OnUnitGrid(p, mode, jstart) ==
    setupGrid(StFlow(p, mode, jstart), p, GridOf(p, 0, p, 0)).s

InitWindow ==
    /\ \E p \in 2 .. MaxPoints : \E js \in 0 .. MaxFirst :
          flow = [d \in Dom |-> OnUnitGrid(IF d = 1 THEN p ELSE 2, "axisymmetric-flow",
                                           IF d = 1 THEN js ELSE 0)]
    /\ out = [d \in Dom |-> FreshOut(flow[d])]
    /\ last = Call("StFlow", 1, NoArgs, flow[1], "none")
    /\ gas = InitGas /\ pc = [d \in Dom |-> Idle]

\* two state buffers: pure species 0 everywhere, and a step from state 2 to 3
WindowProfiles(s) ==
    {xOf(s, [j \in 0 .. (s.m_points - 1) |-> 1]),
     xOf(s, [j \in 0 .. (s.m_points - 1) |-> IF j < 1 THEN 2 ELSE 3])}

NextWindow == Eval(1, GlobalPoints, WindowProfiles(flow[1]), {R(0)})

SpecWindow == InitWindow /\ [][NextWindow]_vars

(* ----------------- the energy equation and its switches --------------- *)

InitEnergy ==
    /\ flow = [d \in Dom |-> OnUnitGrid(IF d = 1 THEN MaxPoints ELSE 2,
                                         "unstrained-flow", 0)]
    /\ out = [d \in Dom |-> FreshOut(flow[d])]
    /\ last = Call("StFlow", 1, NoArgs, flow[1], "none")
    /\ gas = InitGas /\ pc = [d \in Dom |-> Idle]

\* the state buffer that steps from point state 2 to point state 3
StepProfile(s) == {xOf(s, [j \in 0 .. (s.m_points - 1) |-> IF j < 1 THEN 2 ELSE 3])}

\* the state buffer with every point in point state 1
UniformProfile(s) == {xOf(s, [j \in 0 .. (s.m_points - 1) |-> 1])}

NextEnergy ==
    \/ FixTemperature(1)
    \/ SolveEnergyEqn(1)
    \/ Finalize(1, UniformProfile(flow[1]))
    \/ Eval(1, {npos, lastPoint(flow[1])}, StepProfile(flow[1]), {R(1)})

SpecEnergy == InitEnergy /\ [][NextEnergy]_vars

(* ------------- the switches and the Jacobian invalidation ------------- *)

\* a domain whose Jacobian is current, with any energy flags and either
\* refiner activity left by the last switch
InitSwitch ==
    /\ \E f \in [0 .. (MaxPoints - 1) -> BOOLEAN] : \E b \in BOOLEAN :
          flow = [d \in Dom |->
                    IF d = 1
                    THEN setActiveUVT([OnUnitGrid(MaxPoints, "unstrained-flow", 0)
                                          EXCEPT !.m_do_energy = f], b)
                    ELSE OnUnitGrid(2, "unstrained-flow", 0)]
    /\ out = [d \in Dom |-> FreshOut(flow[d])]
    /\ last = Call("StFlow", 1, NoArgs, flow[1], "none")
    /\ gas = InitGas /\ pc = [d \in Dom |-> Idle]

NextSwitch ==
    \/ SolveEnergyEqn(1)
    \/ FixTemperature(1)

SpecSwitch == InitSwitch /\ [][NextSwitch]_vars

(* ------------- two equally configured domains under eval ------------- *)

InitPure ==
    /\ flow = [d \in Dom |-> OnUnitGrid(MaxPoints, "axisymmetric-flow", 0)]
    /\ out = [d \in Dom |-> FreshOut(flow[d])]
    /\ last = Call("StFlow", 1, NoArgs, flow[1], "none")
    /\ gas = InitGas /\ pc = [d \in Dom |-> Idle]

\* the requests offered to both domains: all points, or the second point
PureRequests(s) == {npos, firstPoint(s) + 1}

NextPure ==
    \/ Eval(1, PureRequests(flow[1]), WindowProfiles(flow[1]), {R(0)})
    \/ Eval(2, PureRequests(flow[2]), WindowProfiles(flow[2]), {R(0)})

SpecPure == InitPure /\ [][NextPure]_vars

(* ----------------- the residuals eval writes, all modes --------------- *)

InitResidual ==
    /\ \E m \in FlowModes :
          flow = [d \in Dom |-> OnUnitGrid(IF d = 1 THEN MaxPoints ELSE 2, m, 0)]
    /\ out = [d \in Dom |-> FreshOut(flow[d])]
    /\ last = Call("StFlow", 1, NoArgs, flow[1], "none")
    /\ gas = InitGas /\ pc = [d \in Dom |-> Idle]

\* three state buffers: pure species 0 everywhere (a uniform mass flux), a
\* step from the normalised mixture to the unnormalised composition, and a
\* step from the unnormalised composition to pure species 0
ResidualProfiles(s) ==
    {xOf(s, [j \in 0 .. (s.m_points - 1) |-> 1]),
     xOf(s, [j \in 0 .. (s.m_points - 1) |-> IF j < 1 THEN 2 ELSE 3]),
     xOf(s, [j \in 0 .. (s.m_points - 1) |-> IF j < 1 THEN 3 ELSE 1])}

NextResidual == Eval(1, OwnPoints(flow[1]), ResidualProfiles(flow[1]), {R(1)})

SpecResidual == InitResidual /\ [][NextResidual]_vars

(* ----------------------- electric-field operations -------------------- *)

NextElectric ==
    \/ Eval(1, OwnPoints(flow[1]), StepProfile(flow[1]), {R(1)})
    \/ ElectricField(1)

SpecElectric == InitResidual /\ [][NextElectric]_vars

(* --------------------- the flags across a resize ---------------------- *)

NextResize ==
    \/ Regrid(1)
    \/ SolveEnergyEqn(1)
    \/ FixTemperature(1)
    \/ EnableRadiation(1)
    \/ Finalize(1, UniformProfile(flow[1]))

SpecResize == InitGrid /\ [][NextResize]_vars

(* --------------------- the radiative loss in eval --------------------- *)

\* an unstrained domain with the energy equation enabled at every point
InitRadiation ==
    /\ flow = [d \in Dom |->
                 solveEnergyEqn(OnUnitGrid(IF d = 1 THEN MaxPoints ELSE 2,
                                           "unstrained-flow", 0), npos)]
    /\ out = [d \in Dom |-> FreshOut(flow[d])]
    /\ last = Call("solveEnergyEqn", 1, [j |-> npos], flow[1], "none")
    /\ gas = InitGas /\ pc = [d \in Dom |-> Idle]

NextRadiation ==
    \/ EnableRadiation(1)
    \/ Eval(1, {npos, firstPoint(flow[1]), lastPoint(flow[1])},
            UniformProfile(flow[1]) \cup StepProfile(flow[1]), {R(1)})

SpecRadiation == InitRadiation /\ [][NextRadiation]_vars

(* ------------------ two domains evaluated concurrently --------------- *)

\* the state buffers of the two threads
ConcurrentProfiles(s) == UniformProfile(s) \cup StepProfile(s)

\* each of the two threads runs one eval of its own domain; the steps of
\* the two interleave freely
NextConcurrent ==
    \E d \in Dom :
        \/ EvalBegin(d, ConcurrentProfiles(flow[d]))
        \/ TransportSet(d)
        \/ TransportRead(d)
        \/ EvalEnd(d, {R(1)})

SpecConcurrent == InitPure /\ [][NextConcurrent]_vars

(* --------------------- export and import round trip ------------------- *)

\* the source domain on a unit-spaced grid from 0 or from 1
InitRound ==
    /\ \E m \in {"axisymmetric-flow", "unstrained-flow"} : \E c0 \in {0, 1} :
          flow = [d \in Dom |->
                    setupGrid(StFlow(MaxPoints, m, 0), MaxPoints,
                              GridOf(MaxPoints, IF d = 1 THEN c0 ELSE 0, MaxPoints, 0)).s]
    /\ out = [d \in Dom |-> FreshOut(flow[d])]
    /\ last = Call("StFlow", 1, NoArgs, flow[1], "none")
    /\ gas = InitGas /\ pc = [d \in Dom |-> Idle]

NextRound ==
    \/ Eval(1, {npos}, ResidualProfiles(flow[1]), {R(1)})
    \/ AsArray(1, ResidualProfiles(flow[1]))
    \/ ImportExported(1, 2)
    \/ ImportFields(2, UniformProfile(flow[2]), StepProfile(flow[2]))

SpecRound == InitRound /\ [][NextRound]_vars

(* ------------------ transport, Soret and _finalize -------------------- *)

InitConfig ==
    /\ flow = [d \in Dom |-> OnUnitGrid(IF d = 1 THEN MaxPoints ELSE 2, "free-flow", 0)]
    /\ out = [d \in Dom |-> FreshOut(flow[d])]
    /\ last = Call("StFlow", 1, NoArgs, flow[1], "none")
    /\ gas = InitGas /\ pc = [d \in Dom |-> Idle]

\* metadata maps handed to setMeta and fromArray
MetaStates ==
    {("Soret-enabled" :> TRUE) @@ ("refine-criteria" :> "imported"),
     ("Soret-enabled" :> TRUE) @@ ("transport-model" :> "multicomponent"),
     ("energy-enabled" :> [scalar |-> TRUE, v |-> TRUE])}

NextConfig ==
    \/ SetMeta(1, MetaStates)
    \/ FromArray(1, MetaStates)
    \/ EnableSoret(1)
    \/ SetTransport(1, {"multicomponent", "empty"})
    \/ Finalize(1, UniformProfile(flow[1]))

SpecConfig == InitConfig /\ [][NextConfig]_vars

(* ------------------ the fixed point across _finalize ------------------ *)

\* fixed points handed over in the metadata: a location between grid points
\* or at the coordinate 2, a temperature inside, at the end of or above the
\* range of the profiles
FixedPoints ==
    {("fixed-point" :> [location |-> z, temperature |-> t]) :
        z \in {<<1, 2>>, R(2)}, t \in {<<3, 2>>, R(2), R(5)}}

NextFixedPoint ==
    \/ SetMeta(1, FixedPoints)
    \/ Regrid(1)
    \/ Finalize(1, Profiles(flow[1]))

SpecFixedPoint == InitConfig /\ [][NextFixedPoint]_vars

(* ------------------------ replacing the transport --------------------- *)

NextTransport ==
    \/ SetTransport(1, TransportModels \cup {"empty"})
    \/ EnableSoret(1)
    \/ EnableRadiation(1)

SpecTransport == InitConfig /\ [][NextTransport]_vars

(* -------------------------- boundary emissivities --------------------- *)

NextEmissivity == SetBoundaryEmissivities(1) \/ EnableRadiation(1)

SpecEmissivity == InitConfig /\ [][NextEmissivity]_vars

(* ---------------------- metadata out and back in ---------------------- *)

\* metadata setting one group of flags each: energy flags differing per
\* point, species flags differing per species, Soret with the multicomponent
\* model, radiation with both emissivities, the fixed point
FlagMeta ==
    {("energy-enabled" :> [scalar |-> FALSE, byName |-> FALSE,
                           v |-> [j \in 0 .. (MaxPoints - 1) |-> j = 0]]),
     ("species-enabled" :> [scalar |-> FALSE, byName |-> FALSE,
                            v |-> [k \in Species |-> k = 0]]),
     ("Soret-enabled" :> TRUE) @@ ("transport-model" :> "multicomponent"),
     ("radiation-enabled" :> TRUE) @@ ("emissivity-left" :> <<1, 2>>)
         @@ ("emissivity-right" :> R(1)),
     ("fixed-point" :> [location |-> R(1), temperature |-> R(2)])
         @@ ("refine-criteria" :> "imported")}

NextMeta ==
    \/ SetMeta(1, FlagMeta)
    \/ GetMeta(1)
    \/ SetMetaExported(1, 2)

SpecMeta == InitConfig /\ [][NextMeta]_vars

(* ------------- free-flow continuity around the fixed point ------------ *)

\* metadata placing the fixed point between the first two grid points, at
\* the second one or at the coordinate 2, with the energy equation enabled
\* or disabled everywhere
PinMeta ==
    {("fixed-point" :> [location |-> z, temperature |-> <<3, 2>>])
     @@ ("energy-enabled" :> [scalar |-> TRUE, byName |-> FALSE, v |-> e]) :
        z \in {<<1, 2>>, R(1), R(2)}, e \in BOOLEAN}

NextPin ==
    \/ SetMeta(1, PinMeta)
    \/ Eval(1, {npos, lastPoint(flow[1])},
            StepProfile(flow[1]) \cup UniformProfile(flow[1]), {R(1)})

SpecPin == InitConfig /\ [][NextPin]_vars

(* ----------------- every way of storing an emissivity ----------------- *)

\* metadata switching radiation off, or on with a left emissivity inside or
\* above [0, 1]
RadiationMeta ==
    {("radiation-enabled" :> FALSE)}
    \cup {("radiation-enabled" :> TRUE) @@ ("emissivity-left" :> e)
          @@ ("emissivity-right" :> <<1, 2>>) : e \in {<<1, 2>>, R(2)}}

NextStored ==
    \/ SetBoundaryEmissivities(1)
    \/ SetMeta(1, RadiationMeta)
    \/ FromArray(1, RadiationMeta)

SpecStored == InitConfig /\ [][NextStored]_vars

(* ======================= properties of setupGrid ====================== *)

\* buffers allocated one entry (or column) per grid point
PointSized(s, n) ==
    /\ s.m_points = n
    /\ \A v \in {s.m_z, s.m_rho, s.m_wtm, s.m_cp, s.m_visc, s.m_tcon,
                 s.m_qdotRadiation, s.m_fixedtemp} : DOMAIN v = 0 .. (n - 1)
    /\ DOMAIN s.m_do_energy = 0 .. (n - 1)
    /\ \A a \in {s.m_diff, s.m_flux, s.m_wdot, s.m_hk} :
          DOMAIN a = Species \X (0 .. (n - 1))

\* buffers allocated one entry (or column) per interval
IntervalSized(s, n) ==
    /\ DOMAIN s.m_dz = 0 .. (n - 2)
    /\ DOMAIN s.m_dhk_dz = Species \X (0 .. (n - 2))

C2_FailedSetupGridChangesNothing ==
    (last.op = "setupGrid" /\ ~StrictlyIncreasing(last.args.z, last.args.n)) =>
        /\ last.err = "CanteraError"
        /\ flow[last.d] = last.pre

(* ================== properties of the evaluation window =============== *)

\* the points at which the last evaluation wrote a residual entry
WrittenPoints(d) ==
    {j \in 0 .. (flow[d].m_points - 1) :
        \E n \in 0 .. (flow[d].m_nv - 1) :
            out[d].rsd[index(flow[d], n, j)] # Unwritten}

\* the band pl-1 .. pl+1 around the local index pl (possibly -1 or n),
\* clipped to the n points of the domain
ClippedBand(pl, n) == {j \in 0 .. (n - 1) : pl - 1 <= j /\ j <= pl + 1}

InZone(s, jg) == jg # npos /\ s.m_jstart - 1 <= jg /\ jg <= s.m_jstart + s.m_points

OutOfZone(s, jg) == jg # npos /\ (jg + 1 < s.m_jstart \/ jg > s.m_jstart + s.m_points)

\* C4: for every global point p in the zone of influence
\* (firstPoint-1 <= p <= lastPoint+1) eval writes residuals at exactly the
\* points p_local-1 .. p_local+1 clipped to the domain, p_local = p - firstPoint;
\* for the request 'all points' it writes at every point.
C4_WindowIsClippedBand ==
    last.op = "eval" =>
        LET s == last.pre
            jg == last.args.jg
        IN  /\ jg = npos => WrittenPoints(last.d) = 0 .. (s.m_points - 1)
            /\ InZone(s, jg) =>
                  WrittenPoints(last.d) = ClippedBand(jg - s.m_jstart, s.m_points)

\* C5: an evaluation for a point outside the zone of influence
\* (p + 1 < firstPoint or p > lastPoint + 1) modifies no residual entry, no
\* diag entry and nothing of the domain (caches included).
C5_OutsideIsNoOp ==
    (last.op = "eval" /\ OutOfZone(last.pre, last.args.jg)) =>
        /\ flow[last.d] = last.pre
        /\ out[last.d] = FreshOut(last.pre)

\* an evaluation outside the zone of a domain whose caches an earlier
\* evaluation has filled
C5_Witness ==
    /\ last.op = "eval"
    /\ OutOfZone(last.pre, last.args.jg)
    /\ last.args.jg > last.pre.m_jstart + last.pre.m_points
    /\ \E j \in DOMAIN last.pre.m_rho : last.pre.m_rho[j] # R(0)

(* ====================== properties of eval's caches =================== *)

\* the fields of a domain that eval and its helpers write
Caches ==
    {"m_rho", "m_wtm", "m_cp", "m_hk", "m_wdot", "m_visc", "m_tcon", "m_diff",
     "m_multidiff", "m_dthermal", "m_flux", "m_dhk_dz", "m_qdotRadiation",
     "m_kExcessLeft", "m_kExcessRight"}

\* the persistent configuration of a domain: everything but the caches
Config(s) == [f \in (DOMAIN s) \ Caches |-> s[f]]

\* C3: eval is a pure function of the state buffer and the persistent
\* configuration: when two domains with identical configuration but different
\* histories of earlier evaluations are given the same point index, state
\* buffer and transient weight one after the other, the second call writes
\* the residual and diag entries the first one wrote.
C3_EvalIsPure ==
    [][(/\ last.op = "eval" /\ last'.op = "eval"
        /\ last.d # last'.d
        /\ last.args = last'.args
        /\ Config(flow[last.d]) = Config(flow[last'.d]))
       => out'[last'.d] = out[last.d]]_vars

(* ================= properties of the residuals of eval ================ *)

\* the local points inside the window the last evaluation computed
LastWindow ==
    LET w == evalWindow(last.pre, last.args.jg)
    IN  {j \in 0 .. (last.pre.m_points - 1) : w.jmin <= j /\ j <= w.jmax}

InteriorPoints(s) == 1 .. (s.m_points - 2)

\* the intervals whose diffusive fluxes the last evaluation refreshed
LastRefreshed ==
    LET w  == evalWindow(last.pre, last.args.jg)
        j0 == SzSub(SzMax(w.jmin, 1), 1)
        j1 == SzMin(SzAdd(w.jmax, 1), SzSub(last.pre.m_points, 1))
    IN  {j \in 0 .. (last.pre.m_points - 2) : j0 <= j /\ j < j1}

SpeciesRsd(d, k, j) == out[d].rsd[index(flow[d], c_offset_Y + k, j)]

\* the flux-balance form at boundary point j next to interval jf
FluxBalance(s, x, k, j, jf) ==
    RAdd(s.m_flux[<<k, jf>>], RMul(rho_u(s, x, j), Y(s, x, k, j)))

\* C7: at each boundary point evalSpecies evaluates, the residual of the
\* designated excess species of that boundary, and of no other species, is
\* the normalization constraint 1 - sum_k Y(k, boundary); every other species
\* residual is the flux balance (flux of the adjacent interval plus
\* rho*u*Y(k)), negated on the left boundary.
C7_BoundarySpeciesResiduals ==
    last.op = "eval" =>
        LET s == flow[last.d]
            x == last.args.x
            jr == s.m_points - 1
        IN  /\ 0 \in LastWindow =>
                  \A k \in Species :
                      SpeciesRsd(last.d, k, 0) =
                          IF k = s.m_kExcessLeft THEN normalization(s, x, 0)
                          ELSE RNeg(FluxBalance(s, x, k, 0, 0))
            /\ jr \in LastWindow =>
                  \A k \in Species :
                      SpeciesRsd(last.d, k, jr) =
                          IF k = s.m_kExcessRight THEN normalization(s, x, jr)
                          ELSE FluxBalance(s, x, k, jr, jr - 1)

\* an evaluation of both boundaries whose left excess species is not species
\* 0 and whose left flux balances are not zero
C7_Witness ==
    /\ last.op = "eval"
    /\ 0 \in LastWindow /\ (flow[last.d].m_points - 1) \in LastWindow
    /\ flow[last.d].m_kExcessLeft # 0
    /\ \E k \in Species :
          /\ k # flow[last.d].m_kExcessLeft
          /\ SpeciesRsd(last.d, k, 0) # R(0)

Unstrained(s) == ~s.m_usesLambda /\ ~s.m_isFree

ContinuityRsd(d, j) == out[d].rsd[index(flow[d], c_offset_U, j)]

\* C8: in unstrained-flow mode the continuity residual at every interior
\* point j of the evaluation window is rho_u(j) - rho_u(j-1), classified
\* algebraic (diag 0), and so zero wherever the mass flux is uniform.
C8_UnstrainedContinuity ==
    (last.op = "eval" /\ Unstrained(flow[last.d])) =>
        LET s == flow[last.d]
            x == last.args.x
        IN  \A j \in LastWindow \cap InteriorPoints(s) :
                /\ ContinuityRsd(last.d, j) = RSub(rho_u(s, x, j), rho_u(s, x, j - 1))
                /\ out[last.d].diag[index(s, c_offset_U, j)] = 0
                /\ (\A i \in 0 .. (s.m_points - 1) : rho_u(s, x, i) = rho_u(s, x, 0))
                      => ContinuityRsd(last.d, j) = R(0)

\* an unstrained evaluation over an interior point where the mass flux
\* changes, after one on a uniform mass flux
C8_Witness ==
    /\ last.op = "eval"
    /\ Unstrained(flow[last.d])
    /\ \E j \in LastWindow \cap InteriorPoints(flow[last.d]) :
          ContinuityRsd(last.d, j) # R(0)
    /\ \A j \in 0 .. (last.pre.m_points - 1) : last.pre.m_rho[j] = last.pre.m_rho[0]
    /\ last.pre.m_rho[0] # R(0)

\* C9: in mixture-averaged mode with Soret off, after an evaluation the
\* fluxes of every refreshed interval j sum to zero over the species,
\* whatever the mass fractions (not assumed to sum to one).
C9_MixFluxesSumToZero ==
    (/\ last.op = "eval"
     /\ ~flow[last.d].m_do_multicomponent
     /\ ~flow[last.d].m_do_soret) =>
        \A j \in LastRefreshed :
            RSum([k \in Species |-> flow[last.d].m_flux[<<k, j>>]], 0, NSP - 1) = R(0)

(* ============== properties of the energy equation switches ============ *)

\* the temperature residual and diag entries at j are those of a point where
\* the energy equation is disabled: T(j) - fixedProfile(j), algebraic
DisabledForm(d, x, j) ==
    /\ out[d].rsd[index(flow[d], c_offset_T, j)] = RSub(T(flow[d], x, j), T_fixed(flow[d], j))
    /\ out[d].diag[index(flow[d], c_offset_T, j)] = 0

\* what fixTemperature and solveEnergyEqn leave in the energy flags
SwitchesSetFlags ==
    /\ last.op = "fixTemperature" =>
          \A j \in DOMAIN flow[last.d].m_do_energy :
              (last.args.j \in {j, npos}) => ~flow[last.d].m_do_energy[j]
    /\ last.op = "solveEnergyEqn" =>
          \A j \in DOMAIN flow[last.d].m_do_energy :
              (last.args.j \in {j, npos}) => flow[last.d].m_do_energy[j]

\* C6 as stated: at every point j of the domain (boundary points included)
\* inside the window of an evaluation, a disabled energy equation gives the
\* temperature residual T(j) - fixedProfile(j) with diag 0, and an enabled
\* one gives diag 1.
C6_EveryPointFollowsSwitch ==
    /\ SwitchesSetFlags
    /\ last.op = "eval" =>
          \A j \in LastWindow :
              IF flow[last.d].m_do_energy[j]
              THEN out[last.d].diag[index(flow[last.d], c_offset_T, j)] = 1
              ELSE DisabledForm(last.d, last.args.x, j)

\* C6 amended: fixTemperature clears and solveEnergyEqn sets the energy flag
\* of the addressed point(s); at every interior point j (1 <= j <= nPoints-2)
\* inside the window of an evaluation, a cleared flag gives the temperature
\* residual T(j) - fixedProfile(j) with diag 0 and a set flag gives diag 1.
C6_InteriorPointFollowsSwitch ==
    /\ SwitchesSetFlags
    /\ last.op = "eval" =>
          \A j \in LastWindow \cap InteriorPoints(flow[last.d]) :
              IF flow[last.d].m_do_energy[j]
              THEN out[last.d].diag[index(flow[last.d], c_offset_T, j)] = 1
              ELSE DisabledForm(last.d, last.args.x, j)

\* an evaluation over an interior point whose energy equation has been
\* switched on and off again, against a captured profile that is not zero there
C6_Witness ==
    /\ last.op = "eval"
    /\ last.pre.m_jacStale
    /\ \E j \in LastWindow \cap InteriorPoints(flow[last.d]) :
          /\ ~flow[last.d].m_do_energy[j]
          /\ T_fixed(flow[last.d], j) # R(0)

(* ================== properties of the Soret check ===================== *)

\* C10: whenever the Soret flag is set while the transport model is not
\* multicomponent, _finalize raises a configuration error and leaves the
\* domain exactly as it was (fixed-temperature profile, energy flags and
\* fixed point included), however the flag was set.
C10_FinalizeRejectsSoret ==
    (/\ last.op = "_finalize"
     /\ last.pre.m_do_soret
     /\ ~last.pre.m_do_multicomponent) =>
        /\ last.err = "CanteraError"
        /\ flow[last.d] = last.pre

\* a _finalize rejected on a domain whose Soret flag came with imported
\* metadata and whose energy equation is enabled at the first point
C10_Witness ==
    /\ last.op = "_finalize"
    /\ last.err = "CanteraError"
    /\ last.pre.m_do_soret
    /\ last.pre.m_criteria = "imported"
    /\ last.pre.m_do_energy[0]
    /\ last.pre.m_trans = "mixture-averaged"

\* the last call imported into domain 2 what asArray had just exported
\* from domain 1
RoundTripped ==
    /\ last.op = "fromArray" /\ last.d = 2
    /\ last.args.arr = asArray(flow[1], last.args.x)

\* C11: asArray followed by fromArray into a freshly constructed domain of
\* the same point count reproduces the grid, the value of every active
\* component at every point and the density of every point
C11_RoundTripReproduces ==
    RoundTripped =>
        /\ last.err = "none"
        /\ flow[2].m_z = flow[1].m_z
        /\ \A n \in ActiveComponents(flow[1]) :
              componentData(flow[2], last.args.soln, n)
                  = componentData(flow[1], last.args.x, n)
        /\ flow[2].m_rho = flow[1].m_rho

\* the metadata of the imported array is in effect in domain d
MetaApplied(d) ==
    /\ flow[d].m_criteria = last.args.arr.meta["refine-criteria"]
    /\ \A j \in 0 .. (flow[d].m_points - 1) :
          flow[d].m_do_energy[j]
              = IF last.args.arr.meta["energy-enabled"].scalar
                THEN last.args.arr.meta["energy-enabled"].v
                ELSE last.args.arr.meta["energy-enabled"].v[j]

\* C12: an import from an array lacking an active component warns about
\* it, keeps the values the buffer held for it, does not fail, restores
\* every active component the array holds and applies the metadata; an
\* inactive component is never written
C12_MissingComponentKept ==
    (last.op = "fromArray" /\ last.d = 2) =>
        /\ last.err = "none"
        /\ last.args.warned = ActiveComponents(flow[2]) \ DOMAIN last.args.arr.comps
        /\ \A n \in 0 .. (flow[2].m_nv - 1) :
              componentData(flow[2], last.args.soln, n)
                  = IF componentActive(flow[2], n) /\ n \in DOMAIN last.args.arr.comps
                    THEN last.args.arr.comps[n]
                    ELSE componentData(flow[2], last.args.prior, n)
        /\ MetaApplied(2)

\* an import has kept the temperature the array lacked, restored the
\* velocity and left the electric field the array held unwritten
C12_Witness ==
    /\ last.op = "fromArray" /\ last.d = 2
    /\ last.args.warned = {c_offset_T}
    /\ c_offset_E \in DOMAIN last.args.arr.comps
    /\ last.args.prior # last.args.x
    /\ componentData(flow[2], last.args.soln, c_offset_T)
          = componentData(flow[2], last.args.prior, c_offset_T)
    /\ componentData(flow[2], last.args.soln, c_offset_U)
          = componentData(flow[2], last.args.x, c_offset_U)
    /\ componentData(flow[2], last.args.prior, c_offset_U)
          # componentData(flow[2], last.args.x, c_offset_U)
    /\ componentData(flow[2], last.args.x, c_offset_E)
          # componentData(flow[2], last.args.prior, c_offset_E)

\* C13: every electric-field operation signals NotImplementedError and
\* changes nothing of the domain, and an evaluation writes the raw value of
\* the eField component as its residual at every point of the window
C13_ElectricFieldUnsupported ==
    /\ last.op \in ElectricOps =>
          /\ last.err = "NotImplementedError"
          /\ flow[last.d] = last.pre
    /\ last.op = "eval" =>
          \A j \in LastWindow :
              out[last.d].rsd[index(flow[last.d], c_offset_E, j)]
                  = last.args.x[index(flow[last.d], c_offset_E, j)]

\* an electric-field operation was refused on a domain whose last
\* evaluation left a non-zero eField residual at both boundary points
C13_Witness ==
    /\ last.op \in ElectricOps
    /\ last.err = "NotImplementedError"
    /\ \A j \in {0, flow[last.d].m_points - 1} :
          /\ out[last.d].rsd[index(flow[last.d], c_offset_E, j)] # Unwritten
          /\ out[last.d].rsd[index(flow[last.d], c_offset_E, j)] # R(0)

\* C14: setBoundaryEmissivities fails whenever an argument is outside
\* [0, 1], and then neither stored emissivity changes; when both are in
\* [0, 1] both stored values are replaced
C14_EmissivitiesValidated ==
    last.op = "setBoundaryEmissivities" =>
        IF InUnitInterval(last.args.e_left) /\ InUnitInterval(last.args.e_right)
        THEN /\ last.err = "none"
             /\ flow[last.d].m_epsilon_left = last.args.e_left
             /\ flow[last.d].m_epsilon_right = last.args.e_right
        ELSE /\ last.err = "CanteraError"
             /\ flow[last.d].m_epsilon_left = last.pre.m_epsilon_left
             /\ flow[last.d].m_epsilon_right = last.pre.m_epsilon_right

\* C15: setTransport with an empty handle or with a transport of model
\* "none" fails and leaves the transport collaborator, the multicomponent
\* flag and the transport buffers as they were before the call
C15_FailedSetTransportChangesNothing ==
    (last.op = "setTransport" /\ last.args.trans \in {"empty", "none"}) =>
        /\ last.err = "CanteraError"
        /\ flow[last.d].m_trans = last.pre.m_trans
        /\ flow[last.d].m_do_multicomponent = last.pre.m_do_multicomponent
        /\ flow[last.d].m_diff = last.pre.m_diff
        /\ flow[last.d].m_multidiff = last.pre.m_multidiff
        /\ flow[last.d].m_dthermal = last.pre.m_dthermal

\* C16: whatever the interleaving of the steps of the evals of two
\* domains, when the eval of a domain has returned its caches and its
\* residual and diag buffers are those of the same eval run on its own
C16_ConcurrentEvalsIndependent ==
    \A d \in Dom :
        pc[d].at = "done" =>
            \E r \in {eval(pc[d].pre, npos, pc[d].x, FreshOut(pc[d].pre), R(1))} :
                flow[d] = r.s /\ out[d] = r.o

\* the species, radiation and Soret flags, the emissivities and the fixed
\* point of domain d are those before the last call
FlagsKept(d) ==
    /\ flow[d].m_do_species = last.pre.m_do_species
    /\ flow[d].m_do_radiation = last.pre.m_do_radiation
    /\ flow[d].m_epsilon_left = last.pre.m_epsilon_left
    /\ flow[d].m_epsilon_right = last.pre.m_epsilon_right
    /\ flow[d].m_do_soret = last.pre.m_do_soret
    /\ flow[d].m_zfixed = last.pre.m_zfixed
    /\ flow[d].m_tfixed = last.pre.m_tfixed

\* the energy equation is enabled at every point of s
EnergyEverywhere(s) == \A j \in 0 .. (s.m_points - 1) : s.m_do_energy[j]

\* C17: setupGrid to any point count leaves the species, radiation and
\* Soret flags, the emissivities and the fixed point unchanged, and a
\* domain with the energy equation enabled at every point before has it
\* enabled at every point, new ones included, afterwards
C17_FlagsSurviveResize ==
    last.op = "setupGrid" =>
        /\ FlagsKept(last.d)
        /\ EnergyEverywhere(last.pre) => EnergyEverywhere(flow[last.d])

\* C17 as the code has it: setupGrid leaves those flags and the fixed point
\* unchanged and keeps the energy flag of every point that remains, a new
\* point getting a cleared flag; the next _finalize that succeeds enables
\* the energy equation at every point when it was enabled at point 0
C17_FlagsSurviveResizeAndFinalize ==
    /\ last.op = "setupGrid" =>
          /\ FlagsKept(last.d)
          /\ \A j \in 0 .. (flow[last.d].m_points - 1) :
                flow[last.d].m_do_energy[j]
                    = IF j < last.pre.m_points THEN last.pre.m_do_energy[j] ELSE FALSE
    /\ (last.op = "_finalize" /\ last.err = "none" /\ last.pre.m_do_energy[0]) =>
          EnergyEverywhere(flow[last.d])

\* a domain with the energy equation enabled at every point has grown, and
\* its new last point has a cleared flag
C17_Witness ==
    /\ last.op = "setupGrid"
    /\ EnergyEverywhere(last.pre)
    /\ last.pre.m_do_radiation
    /\ flow[last.d].m_points > last.pre.m_points
    /\ ~flow[last.d].m_do_energy[flow[last.d].m_points - 1]
    /\ flow[last.d].m_do_energy[0]

\* the transport cache of interval j of domain d holds what updateTransport
\* computes for that interval from the state buffer x
TransportCurrent(d, x, j) ==
    \E ref \in {updateTransport(last.pre, x, j, j + 1)} :
        /\ flow[d].m_visc[j] = ref.m_visc[j]
        /\ flow[d].m_tcon[j] = ref.m_tcon[j]
        /\ \A k \in Species : flow[d].m_diff[<<k, j>>] = ref.m_diff[<<k, j>>]

\* C18: every evaluation, whole-domain or banded, leaves in the transport
\* cache of every interval of the band one interval wider than the window
\* the values of the current state buffer
C18_TransportRefreshedEveryEval ==
    (last.op = "eval" /\ ~outsideInfluence(last.pre, last.args.jg)) =>
        \A j \in LastRefreshed : TransportCurrent(last.d, last.args.x, j)

\* C19: with radiation enabled, the radiative loss an evaluation subtracts
\* in the energy residual of an interior window point with the energy
\* equation enabled is the one computeRadiation gives for the state buffer
\* of that evaluation
C19_RadiativeLossIsCurrent ==
    (last.op = "eval" /\ last.pre.m_do_radiation) =>
        \A j \in LastWindow \cap InteriorPoints(last.pre) :
            last.pre.m_do_energy[j] =>
                flow[last.d].m_qdotRadiation[j]
                    = radiativeHeatLoss(flow[last.d], last.args.x, j)

\* C20: after a whole-domain evaluation every entry of the diag buffer of
\* the domain holds the classification the assemblers wrote, 0 or 1,
\* whatever the buffer held before
C20_EveryDiagWritten ==
    (last.op = "eval" /\ last.args.jg = npos) =>
        \A n \in 0 .. (flow[last.d].m_nv - 1) : \A j \in 0 .. (flow[last.d].m_points - 1) :
            out[last.d].diag[index(flow[last.d], n, j)] \in {0, 1}

\* the points whose energy flag the last call changed
LastFlagsChanged ==
    {i \in DOMAIN last.pre.m_do_energy :
        flow[last.d].m_do_energy[i] # last.pre.m_do_energy[i]}

\* C21: solveEnergyEqn(j) and fixTemperature(j) signal the Jacobian
\* invalidation exactly when the call changes the energy flag of a point,
\* always set the refiner activity of the velocity, spread-rate and
\* temperature components to active (solveEnergyEqn) or inactive
\* (fixTemperature), set the flag of the addressed point(s) and leave the
\* flag of every other point alone
C21_SwitchSignalsIffChanged ==
    (last.op \in {"solveEnergyEqn", "fixTemperature"}) =>
        LET b == (last.op = "solveEnergyEqn")
            j == last.args.j
        IN  /\ flow[last.d].m_jacStale
                  = (last.pre.m_jacStale \/ LastFlagsChanged # {})
            /\ \A c \in {c_offset_U, c_offset_V, c_offset_T} :
                  flow[last.d].m_refiner[c] = b
            /\ \A i \in DOMAIN last.pre.m_do_energy :
                  flow[last.d].m_do_energy[i]
                      = IF j = npos \/ i = j THEN b ELSE last.pre.m_do_energy[i]

\* a one-point solveEnergyEqn on a current Jacobian that finds the flag
\* already set, beside a point with the flag clear: nothing is signalled
C21_Witness ==
    /\ last.op = "solveEnergyEqn"
    /\ last.args.j # npos
    /\ ~last.pre.m_jacStale
    /\ ~flow[last.d].m_jacStale
    /\ LastFlagsChanged = {}
    /\ \E i \in DOMAIN flow[last.d].m_do_energy : ~flow[last.d].m_do_energy[i]
    /\ ~last.pre.m_refiner[c_offset_T]

\* the caches of s are those a refresh of the whole domain computes from the
\* state buffer x under the configuration s holds
RefreshedUnder(s, x) ==
    \E junk \in Junk :
        \E ref \in {updateProperties([s EXCEPT !.beyond_dthermal = junk], npos, x,
                                     0, SzSub(s.m_points, 1))} :
            \A f \in Caches \ {"m_qdotRadiation"} : s[f] = ref[f]

\* C22: fromArray rebuilds the grid, restores the active components,
\* reapplies the metadata and only then refreshes the derived properties over
\* the whole domain, so after a successful import the caches are those of
\* the imported state under the imported configuration
C22_RefreshUnderImportedConfig ==
    (last.op = "fromArray" /\ last.err = "none") =>
        RefreshedUnder(flow[last.d], last.args.soln)

\* z is the coordinate of a grid point of s
OnGrid(s, z) == \E j \in 0 .. (s.m_points - 1) : grid(s, j) = z

\* C23: in free-flow mode with a fixed point set (location and temperature
\* both defined), after _finalize the
\* fixed-point location is the coordinate of a grid point: unchanged when it
\* was one already, else z(j+1) of the first interval whose end temperatures
\* bracket the fixed temperature, with the fixed temperature reset to T(j+1)
C23_FixedPointOnGrid ==
    (/\ last.op = "_finalize" /\ last.err = "none"
     /\ last.pre.m_isFree
     /\ last.pre.m_tfixed # Undef /\ last.pre.m_zfixed # Undef) =>
        LET s  == flow[last.d]
            x  == last.args.x
            jc == firstCrossing(last.pre, x)
        IN  /\ OnGrid(s, s.m_zfixed)
            /\ OnGrid(last.pre, last.pre.m_zfixed) =>
                  /\ s.m_zfixed = last.pre.m_zfixed
                  /\ s.m_tfixed = last.pre.m_tfixed
            /\ ~OnGrid(last.pre, last.pre.m_zfixed) =>
                  /\ jc < s.m_points - 1
                  /\ s.m_zfixed = grid(s, jc + 1)
                  /\ s.m_tfixed = T(s, x, jc + 1)

\* C24: whatever sequence of setBoundaryEmissivities, setMeta and fromArray
\* calls succeeded or failed since construction, both stored boundary
\* emissivities lie in [0, 1]
C24_StoredEmissivitiesInRange ==
    \A d \in Dom :
        /\ InUnitInterval(flow[d].m_epsilon_left)
        /\ InUnitInterval(flow[d].m_epsilon_right)

\* C25: the map getMeta produces is accepted by setMeta on a domain with the
\* same species and points, and restores the energy flags, the Soret flag,
\* the species flags, the radiation flag (with both emissivities when
\* radiation is enabled), the refinement criteria and the fixed point
C25_MetaRoundTrip ==
    (last.op = "setMeta" /\ "from" \in DOMAIN last.args) =>
        LET s == flow[last.args.from]
            t == flow[last.d]
        IN  /\ last.err = "none"
            /\ t.m_do_energy = s.m_do_energy
            /\ t.m_do_soret = s.m_do_soret
            /\ t.m_do_species = s.m_do_species
            /\ t.m_do_radiation = s.m_do_radiation
            /\ s.m_do_radiation =>
                  /\ t.m_epsilon_left = s.m_epsilon_left
                  /\ t.m_epsilon_right = s.m_epsilon_right
            /\ t.m_criteria = s.m_criteria
            /\ t.m_zfixed = s.m_zfixed
            /\ t.m_tfixed = s.m_tfixed

\* the interior points of domain d that lie at the fixed point
AtFixedPoint(d) ==
    {j \in InteriorPoints(flow[d]) : grid(flow[d], j) = flow[d].m_zfixed}

C27_BoundaryContinuity ==
    last.op = "eval" =>
        LET s  == flow[last.d]
            x  == last.args.x
            jr == s.m_points - 1
        IN  /\ jr \in LastWindow =>
                  ContinuityRsd(last.d, jr) =
                      IF s.m_usesLambda THEN rho_u(s, x, jr)
                      ELSE RSub(rho_u(s, x, jr), rho_u(s, x, jr - 1))
            /\ 0 \in LastWindow =>
                  ContinuityRsd(last.d, 0) =
                      RSub(RNeg(RDiv(RSub(rho_u(s, x, 1), rho_u(s, x, 0)),
                                     RSub(grid(s, 1), grid(s, 0)))),
                           RAdd(RMul(density(s, 1), V(s, x, 1)),
                                RMul(density(s, 0), V(s, x, 0))))
            /\ \A j \in LastWindow : out[last.d].diag[index(s, c_offset_U, j)] = 0

\* a whole-domain evaluation outside axisymmetric mode with a spread rate
\* at the left boundary and a mass flux at the right one, where the residual
\* is not the mass flux itself
C27_Witness ==
    /\ last.op = "eval" /\ last.args.jg = npos
    /\ ~flow[last.d].m_usesLambda
    /\ ContinuityRsd(last.d, flow[last.d].m_points - 1)
          # rho_u(flow[last.d], last.args.x, flow[last.d].m_points - 1)
    /\ RAdd(RMul(density(flow[last.d], 1), V(flow[last.d], last.args.x, 1)),
            RMul(density(flow[last.d], 0), V(flow[last.d], last.args.x, 0))) # R(0)

====
